---- MODULE Spec2Model ----
(***************************************************************************)
(* Model of the blog-generator pipeline: the per-agent parseJSONSafely     *)
(* extractors, the six agents' execute methods and createBlogChain.        *)
(*                                                                         *)
(* Text is a sequence of tokens.  A token is one punctuation or whitespace *)
(* character, one digit, the three-backtick fence, or a run of letters     *)
(* (a word).  The regular expressions of the source look at letters only   *)
(* in three places: the "n" after a backslash, the word json after a       *)
(* fence, and the key content; these are tokens of their own.              *)
(***************************************************************************)
EXTENDS Integers, Sequences, FiniteSets, TLC

VARIABLES
    \* one call of parseJSONSafely, attempt by attempt
    exAgent, exRaw, exPc, exTrace, exResult, exErr,
    \* one computation of the metadata of a draft or of a revision
    mdAgent, mdContent, mdPc, mdRecord,
    \* one call of ResearcherAgent.execute by itself
    rsInput, rsResp, rsPc, rsLocals, rsRecord,
    \* the chain and its agents
    env,        \* the credentials set in process.env
    chain,      \* createBlogChain: "none" before, "created", or "failed" when it threw
    createdWith, \* the credentials set when createBlogChain was called
    configErr,  \* the error a constructor threw
    \* one run of the chain
    topic,      \* the topic chain.invoke was given
    hasGithub,     \* whether the stageInput names a githubUsername
    pc,         \* "idle", "running", "done", "failed", or "rejected" when
                \* chain.invoke rejected before the first agent was called
    stage,      \* the position in StageOrder of the agent executing, 0 before
    call,       \* the call that agent awaits
    stageInput,      \* the stageInput record execute was given
    locals,        \* the locals execute holds across its awaits
    output,        \* the output record execute has assembled
    caught,     \* the error its catch block holds
    runTree,       \* its RunTree
    tele,       \* the runs posted to the telemetry collaborator
    inflight,   \* the collaborator calls issued and not yet settled
    recs,       \* the record each agent returned to the chain
    status,     \* each agent's execute: "pending", "running", "returned", "threw"
    started,    \* the agents whose execute was invoked, in order
    issued,     \* the search, generator and sink calls issued, in order
    thrown,     \* the error the failing execute rejected with
    collabErr,  \* the error a generator or search call failed with
    runError,   \* the error chain.invoke rejected with
    result,     \* the value chain.invoke resolved with
    files       \* the post files in the output directory

exVars == <<exAgent, exRaw, exPc, exTrace, exResult, exErr>>

cfgVars == <<env, chain, createdWith, configErr>>

runVars == <<cfgVars, topic, hasGithub, pc, stage, call, stageInput, locals, output, caught, runTree, tele, inflight,
             recs, status, started, issued, thrown, collabErr, runError, result, files>>

mdVars == <<mdAgent, mdContent, mdPc, mdRecord>>

rsVars == <<rsInput, rsResp, rsPc, rsLocals, rsRecord>>

vars == <<exVars, mdVars, rsVars, runVars>>

(* ------------------------------ tokens -------------------------------- *)
LB == "{"
RB == "}"
LK == "["
RK == "]"
QT == "\""
CO == ":"
CM == ","
BS == "\\"
SP == " "
NL == "\n"
\* the three-backtick code fence, one token
FENCE == "<fence>"

Digits == <<"0", "1", "2", "3", "4", "5", "6", "7", "8", "9">>

IsWs(c) == c \in {SP, NL}

IsDigit(c) == \E d \in 1..10 : Digits[d] = c

DigitVal(c) == (CHOOSE d \in 1..10 : Digits[d] = c) - 1

(* ---------------------------- JSON values ----------------------------- *)
(* Every value is a record of the same shape, so that any two values can   *)
(* be compared: t is the kind, n a number, s a string's tokens, keys and   *)
(* kids an object's keys and values (kids alone: an array's elements).     *)
JVal(t, n, s, keys, kids) == [t |-> t, n |-> n, s |-> s, keys |-> keys, kids |-> kids]

JUndef == JVal("undef", 0, <<>>, <<>>, <<>>)

JNull == JVal("null", 0, <<>>, <<>>, <<>>)

JBool(b) == JVal(IF b THEN "true" ELSE "false", 0, <<>>, <<>>, <<>>)

JNum(n) == JVal("num", n, <<>>, <<>>, <<>>)

JStr(s) == JVal("str", 0, s, <<>>, <<>>)

JArr(kids) == JVal("arr", 0, <<>>, <<>>, kids)

JObj(keys, kids) == JVal("obj", 0, <<>>, keys, kids)

KeyIndex(keys, k) == IF \E i \in 1..Len(keys) : keys[i] = k
                     THEN CHOOSE i \in 1..Len(keys) : keys[i] = k
                     ELSE 0

\* obj[k] = v: a key already present keeps its place and takes the new value
SetProp(o, k, v) ==
    LET i == KeyIndex(o.keys, k)
    IN IF i = 0
       THEN [o EXCEPT !.keys = Append(@, k), !.kids = Append(@, v)]
       ELSE [o EXCEPT !.kids[i] = v]

\* obj.k of a parsed value: undefined when the property is absent
GetProp(o, k) ==
    IF o.t = "obj" /\ KeyIndex(o.keys, <<k>>) # 0
    THEN o.kids[KeyIndex(o.keys, <<k>>)]
    ELSE JUndef

(* ----------------------------- JSON.parse ----------------------------- *)
PFail == [ok |-> FALSE, val |-> JUndef, next |-> 0]

POk(v, next) == [ok |-> TRUE, val |-> v, next |-> next]

RECURSIVE SkipWs(_, _)
SkipWs(t, i) == IF i <= Len(t) /\ IsWs(t[i]) THEN SkipWs(t, i + 1) ELSE i

\* the characters of a string literal from position i up to its closing quote
RECURSIVE ParseStringBody(_, _, _)
ParseStringBody(t, i, acc) ==
    IF i > Len(t) THEN PFail
    ELSE IF t[i] = QT THEN POk(JStr(acc), i + 1)
    ELSE IF t[i] = NL THEN PFail
    ELSE IF t[i] = BS
         THEN IF i + 1 > Len(t) THEN PFail
              ELSE IF t[i + 1] \in {QT, BS} THEN ParseStringBody(t, i + 2, Append(acc, t[i + 1]))
              ELSE IF t[i + 1] = "n" THEN ParseStringBody(t, i + 2, Append(acc, NL))
              ELSE PFail
    ELSE ParseStringBody(t, i + 1, Append(acc, t[i]))

RECURSIVE ParseDigits(_, _, _)
ParseDigits(t, i, acc) ==
    IF i <= Len(t) /\ IsDigit(t[i])
    THEN ParseDigits(t, i + 1, acc * 10 + DigitVal(t[i]))
    ELSE POk(JNum(acc), i)

\* a number: no leading zero
ParseNumber(t, i) ==
    IF t[i] = "0"
    THEN IF i + 1 <= Len(t) /\ IsDigit(t[i + 1]) THEN PFail ELSE POk(JNum(0), i + 1)
    ELSE ParseDigits(t, i, 0)

RECURSIVE ParseValue(_, _)
RECURSIVE ParseElements(_, _, _)
RECURSIVE ParseMembers(_, _, _)

\* an element r has been read: "]" ends the array, "," brings the next element
AfterElement(t, acc, r) ==
    LET j == IF r.ok THEN SkipWs(t, r.next) ELSE 0
    IN IF ~r.ok \/ j > Len(t) THEN PFail
       ELSE IF t[j] = RK THEN POk(JArr(Append(acc, r.val)), j + 1)
       ELSE IF t[j] = CM THEN ParseElements(t, j + 1, Append(acc, r.val))
       ELSE PFail

\* after "[" and at least one element: the elements up to "]"
ParseElements(t, i, acc) == AfterElement(t, acc, ParseValue(t, i))

\* a member key: r has been read: "}" ends the object, "," brings the next member
AfterMember(t, acc, key, r) ==
    LET j == IF r.ok THEN SkipWs(t, r.next) ELSE 0
    IN IF ~r.ok \/ j > Len(t) THEN PFail
       ELSE IF t[j] = RB THEN POk(SetProp(acc, key.val.s, r.val), j + 1)
       ELSE IF t[j] = CM THEN ParseMembers(t, j + 1, SetProp(acc, key.val.s, r.val))
       ELSE PFail

\* a key has been read: ":" and the value follow
AfterKey(t, acc, key) ==
    LET c == IF key.ok THEN SkipWs(t, key.next) ELSE 0
    IN IF key.ok /\ c <= Len(t) /\ t[c] = CO
       THEN AfterMember(t, acc, key, ParseValue(t, c + 1))
       ELSE PFail

\* after "{" and at least one member: the members up to "}"
ParseMembers(t, i, acc) ==
    LET k == SkipWs(t, i)
    IN IF k <= Len(t) /\ t[k] = QT THEN AfterKey(t, acc, ParseStringBody(t, k + 1, <<>>))
       ELSE PFail

ParseValue(t, i0) ==
    LET i == SkipWs(t, i0)
    IN IF i > Len(t) THEN PFail
       ELSE IF t[i] = QT THEN ParseStringBody(t, i + 1, <<>>)
       ELSE IF IsDigit(t[i]) THEN ParseNumber(t, i)
       ELSE IF t[i] = "true" THEN POk(JBool(TRUE), i + 1)
       ELSE IF t[i] = "false" THEN POk(JBool(FALSE), i + 1)
       ELSE IF t[i] = "null" THEN POk(JNull, i + 1)
       ELSE IF t[i] = LK
            THEN IF SkipWs(t, i + 1) <= Len(t) /\ t[SkipWs(t, i + 1)] = RK
                 THEN POk(JArr(<<>>), SkipWs(t, i + 1) + 1)
                 ELSE ParseElements(t, i + 1, <<>>)
       ELSE IF t[i] = LB
            THEN IF SkipWs(t, i + 1) <= Len(t) /\ t[SkipWs(t, i + 1)] = RB
                 THEN POk(JObj(<<>>, <<>>), SkipWs(t, i + 1) + 1)
                 ELSE ParseMembers(t, i + 1, JObj(<<>>, <<>>))
       ELSE PFail

\* the whole text must be one value
WholeText(t, r) ==
    IF r.ok /\ SkipWs(t, r.next) > Len(t) THEN [ok |-> TRUE, val |-> r.val]
    ELSE [ok |-> FALSE, val |-> JUndef]

\* JSON.parse(text): ok = FALSE stands for the SyntaxError it throws
JSONParse(t) == WholeText(t, ParseValue(t, 1))

(* ------------------------ regular expressions ------------------------- *)
SubSeqFrom(t, i) == SubSeq(t, i, Len(t))

NoMatch == [found |-> FALSE, from |-> 0, to |-> 0, cap |-> <<>>]

\* the first position >= i holding the token c, or 0
RECURSIVE FirstAt(_, _, _)
FirstAt(t, c, i) == IF i > Len(t) THEN 0
                    ELSE IF t[i] = c THEN i
                    ELSE FirstAt(t, c, i + 1)

\* the last position >= i holding the token c, or 0
LastAt(t, c, i) == IF \E j \in i..Len(t) : t[j] = c
                   THEN CHOOSE j \in i..Len(t) : t[j] = c /\ \A k \in (j + 1)..Len(t) : t[k] # c
                   ELSE 0

\* the first position j >= i with a newline at j and a fence at j + 1, or 0
RECURSIVE FirstNlFence(_, _)
FirstNlFence(t, i) == IF i + 1 > Len(t) THEN 0
                      ELSE IF t[i] = NL /\ t[i + 1] = FENCE THEN i
                      ELSE FirstNlFence(t, i + 1)

\* /```(?:json)?\n([\s\S]*?)\n```/ tried at the fence at position i
FenceMatchAt(t, i) ==
    LET b == IF i + 2 <= Len(t) /\ t[i + 1] = "json" /\ t[i + 2] = NL THEN i + 3
             ELSE IF i + 1 <= Len(t) /\ t[i + 1] = NL THEN i + 2
             ELSE 0
        j == IF b = 0 THEN 0 ELSE FirstNlFence(t, b)
    IN IF j = 0 THEN NoMatch
       ELSE [found |-> TRUE, from |-> i, to |-> j + 1, cap |-> SubSeq(t, b, j - 1)]

\* jsonString.match(codeBlockRegex): the leftmost match
RECURSIVE CodeBlockMatchFrom(_, _)
CodeBlockMatchFrom(t, i) ==
    IF i > Len(t) THEN NoMatch
    ELSE IF t[i] = FENCE /\ FenceMatchAt(t, i).found THEN FenceMatchAt(t, i)
    ELSE CodeBlockMatchFrom(t, i + 1)

CodeBlockMatch(t) == CodeBlockMatchFrom(t, 1)

\* /(\{[\s\S]*?\}|\[[\s\S]*?\])/: the leftmost opener that has a closer of its kind
\* after it, up to the first such closer
RECURSIVE JsonPatternFrom(_, _)
JsonPatternFrom(t, i) ==
    IF i > Len(t) THEN NoMatch
    ELSE LET close == IF t[i] = LB THEN FirstAt(t, RB, i + 1)
                      ELSE IF t[i] = LK THEN FirstAt(t, RK, i + 1)
                      ELSE 0
         IN IF close # 0
            THEN [found |-> TRUE, from |-> i, to |-> close, cap |-> SubSeq(t, i, close)]
            ELSE JsonPatternFrom(t, i + 1)

JsonPatternMatch(t) == JsonPatternFrom(t, 1)

\* /\{[\s\S]*\}|\[[\s\S]*\]/: the leftmost opener that has a closer of its kind
\* after it, up to the last such closer
RECURSIVE GreedyPatternFrom(_, _)
GreedyPatternFrom(t, i) ==
    IF i > Len(t) THEN NoMatch
    ELSE LET close == IF t[i] = LB THEN LastAt(t, RB, i + 1)
                      ELSE IF t[i] = LK THEN LastAt(t, RK, i + 1)
                      ELSE 0
         IN IF close # 0
            THEN [found |-> TRUE, from |-> i, to |-> close, cap |-> SubSeq(t, i, close)]
            ELSE GreedyPatternFrom(t, i + 1)

GreedyPatternMatch(t) == GreedyPatternFrom(t, 1)

\* /"content":\s*"([^"]*?)"/ tried at position i
ContentMatchAt(t, i) ==
    LET q == IF i + 3 <= Len(t) /\ t[i] = QT /\ t[i + 1] = "content" /\ t[i + 2] = QT
                /\ t[i + 3] = CO
             THEN SkipWs(t, i + 4)
             ELSE 0
        r == IF q # 0 /\ q <= Len(t) /\ t[q] = QT THEN FirstAt(t, QT, q + 1) ELSE 0
    IN IF r = 0 THEN NoMatch
       ELSE [found |-> TRUE, from |-> i, to |-> r, cap |-> SubSeq(t, q + 1, r - 1)]

RECURSIVE ContentMatchFrom(_, _)
ContentMatchFrom(t, i) ==
    IF i > Len(t) THEN NoMatch
    ELSE IF ContentMatchAt(t, i).found THEN ContentMatchAt(t, i)
    ELSE ContentMatchFrom(t, i + 1)

ContentMatch(t) == ContentMatchFrom(t, 1)

(* ------------------------- the replace chains ------------------------- *)
\* .replace(/ab/g, rep) for a two-token pattern a b
RECURSIVE ReplacePair(_, _, _, _)
ReplacePair(t, a, b, rep) ==
    IF t = <<>> THEN <<>>
    ELSE IF Len(t) >= 2 /\ t[1] = a /\ t[2] = b
         THEN rep \o ReplacePair(SubSeqFrom(t, 3), a, b, rep)
         ELSE <<t[1]>> \o ReplacePair(Tail(t), a, b, rep)

\* .replace(/\n/g, rep)
RECURSIVE ReplaceNewlines(_, _)
ReplaceNewlines(t, rep) ==
    IF t = <<>> THEN <<>>
    ELSE (IF t[1] = NL THEN rep ELSE <<t[1]>>) \o ReplaceNewlines(Tail(t), rep)

\* .replace(/\s+/g, " ")
RECURSIVE CollapseWs(_)
CollapseWs(t) ==
    IF t = <<>> THEN <<>>
    ELSE IF IsWs(t[1]) THEN <<SP>> \o CollapseWs(SubSeqFrom(t, SkipWs(t, 1)))
    ELSE <<t[1]>> \o CollapseWs(Tail(t))

\* .replace(/a\s+b/g, ...): every a, one or more whitespace, b is replaced by
\* what is kept of it (keepA: the a; keepWs: the whitespace; the b always)
RECURSIVE ReplaceSpaced(_, _, _, _, _)
ReplaceSpaced(t, a, b, keepA, keepWs) ==
    IF t = <<>> THEN <<>>
    ELSE LET e == SkipWs(t, 2)
         IN IF t[1] = a /\ e > 2 /\ e <= Len(t) /\ t[e] = b
            THEN (IF keepA THEN <<a>> ELSE <<>>)
                 \o (IF keepWs THEN SubSeq(t, 2, e - 1) ELSE <<>>)
                 \o <<b>>
                 \o ReplaceSpaced(SubSeqFrom(t, e + 1), a, b, keepA, keepWs)
            ELSE <<t[1]>> \o ReplaceSpaced(Tail(t), a, b, keepA, keepWs)

RECURSIVE TrimLeft(_)
TrimLeft(t) == IF t # <<>> /\ IsWs(t[1]) THEN TrimLeft(Tail(t)) ELSE t

RECURSIVE TrimRight(_)
TrimRight(t) == IF t # <<>> /\ IsWs(t[Len(t)]) THEN TrimRight(SubSeq(t, 1, Len(t) - 1)) ELSE t

Trim(t) == TrimRight(TrimLeft(t))

\* the chain from /"\s+}/ on, shared by every variant
CleanTail(t) ==
    Trim(ReplacePair(ReplacePair(
        ReplaceSpaced(ReplaceSpaced(ReplaceSpaced(t, QT, RB, TRUE, FALSE),
                                    QT, CM, TRUE, FALSE),
                      CM, RB, FALSE, TRUE),
        BS, QT, <<QT>>), BS, BS, <<BS>>))

\* critiquer, editor, publisher: escaped and real newlines become spaces
CleanStd(t) ==
    CleanTail(CollapseWs(ReplaceNewlines(ReplacePair(t, BS, "n", <<SP>>), <<SP>>)))

\* writer: escaped newlines are kept, real newlines become escaped ones
CleanWriter(t) ==
    CleanTail(CollapseWs(ReplaceNewlines(ReplacePair(t, BS, "n", <<BS, "n">>), <<BS, "n">>)))

(* --------------------------- parseJSONSafely -------------------------- *)
\* The three variants of parseJSONSafely in the chain's agents.
Variant(agent) == IF agent = "curator" THEN "simple"
                  ELSE IF agent = "writer" THEN "writer"
                  ELSE "std"

Clean(agent, t) == IF Variant(agent) = "writer" THEN CleanWriter(t) ELSE CleanStd(t)

Placeholder == <<QT, "content", QT, CO, SP, QT, "CONTENT_PLACEHOLDER", QT>>

\* parsedJson.content = content: on an array the property is set beside the elements
SetContent(v, content) ==
    IF v.t = "obj" THEN SetProp(v, <<"content">>, JStr(content))
    ELSE [v EXCEPT !.keys = <<<<"content">>>>, !.s = content]

Failed == [ok |-> FALSE, val |-> JUndef]

\* A first attempt that parses the cleaned text: C10 must tell it from DirectParse.
DirectParseCleaned(raw) == JSONParse(CleanStd(raw))

\* first attempt: JSON.parse(jsonString)
DirectParse(raw) == JSONParse(raw)

\* the code block of the text, if it has one with a non-empty interior
FencedSpan(raw) ==
    LET m == CodeBlockMatch(raw)
    IN IF m.found /\ m.cap # <<>> THEN m ELSE NoMatch

\* JSON.parse(codeBlockMatch[1])
FencedParse(raw) == JSONParse(FencedSpan(raw).cap)

\* JSON.parse(cleanedBlock)
FencedCleanedParse(agent, raw) == JSONParse(Clean(agent, FencedSpan(raw).cap))

\* the bracket span of the text: greedy in the curator, lazy elsewhere
BracketSpan(agent, raw) ==
    IF Variant(agent) = "simple" THEN GreedyPatternMatch(raw) ELSE JsonPatternMatch(raw)

\* the writer's cleaning of a span whose content value cm was found: the value is
\* held aside, the rest is cleaned and parsed, the value is put back
ContentAsideParse(span, cm) ==
    LET p == JSONParse(CleanWriter(SubSeq(span, 1, cm.from - 1) \o Placeholder
                                   \o SubSeqFrom(span, cm.to + 1)))
    IN IF p.ok THEN [ok |-> TRUE, val |-> SetContent(p.val, cm.cap)] ELSE Failed

WriterSpanParse(span, cm) ==
    IF cm.found THEN ContentAsideParse(span, cm) ELSE JSONParse(CleanWriter(span))

SpanParse(agent, span) ==
    IF Variant(agent) = "simple" THEN JSONParse(span)
    ELSE IF Variant(agent) = "writer" THEN WriterSpanParse(span, ContentMatch(span))
    ELSE JSONParse(CleanStd(span))

\* the parse made of the bracket span: verbatim in the curator, cleaned elsewhere
BracketParse(agent, raw) == SpanParse(agent, BracketSpan(agent, raw).cap)

\* The attempts of a variant, in the order the code makes them.
Attempts(agent) == IF Variant(agent) = "simple" THEN <<"direct", "bracket">>
                   ELSE <<"direct", "fenced", "fencedCleaned", "bracketCleaned">>

\* whether the attempt can be made on the text (its span was found), and its result
AttemptSpan(agent, a, raw) ==
    IF a = "direct" THEN TRUE
    ELSE IF a \in {"fenced", "fencedCleaned"} THEN FencedSpan(raw).found
    ELSE BracketSpan(agent, raw).found

AttemptParse(agent, a, raw) ==
    IF a = "direct" THEN DirectParse(raw)
    ELSE IF a = "fenced" THEN FencedParse(raw)
    ELSE IF a = "fencedCleaned" THEN FencedCleanedParse(agent, raw)
    ELSE BracketParse(agent, raw)

\* A cascade that throws once a code block was found and did not parse: C9 must
\* tell it from AfterAttempt.
AfterAttemptStopsAtBlock(agent, i, raw) ==
    IF i + 1 > Len(Attempts(agent)) THEN 0
    ELSE IF Attempts(agent)[i] = "fenced" /\ ~FencedSpan(raw).found THEN i + 2
    ELSE IF Attempts(agent)[i] = "fencedCleaned" THEN 0
    ELSE i + 1

\* the attempt made after attempt number i has failed or found no span; 0: throw
AfterAttempt(agent, i, raw) ==
    IF i + 1 > Len(Attempts(agent)) THEN 0
    ELSE IF Attempts(agent)[i] = "fenced" /\ ~FencedSpan(raw).found THEN i + 2
    ELSE i + 1

\* the result of an attempt: Failed when its span is not in the text
AttemptResult(agent, a, raw) ==
    IF AttemptSpan(agent, a, raw) THEN AttemptParse(agent, a, raw) ELSE Failed

RECURSIVE Cascade(_, _, _, _)

\* an attempt has given r: return its value, or make the next attempt
Settle(agent, raw, i, trace, r) ==
    IF r.ok THEN [ok |-> TRUE, val |-> r.val, trace |-> trace]
    ELSE Cascade(agent, raw, AfterAttempt(agent, i, raw), trace)

\* parseJSONSafely(jsonString) as a whole: the value returned, or ok = FALSE for
\* the Error thrown, with the attempts made
Cascade(agent, raw, i, trace) ==
    IF i = 0 THEN [ok |-> FALSE, val |-> JUndef, trace |-> trace]
    ELSE Settle(agent, raw, i, Append(trace, Attempts(agent)[i]),
                AttemptResult(agent, Attempts(agent)[i], raw))

ParseJSONSafely(agent, raw) == Cascade(agent, raw, 1, <<>>)

(* ------------------------ JavaScript on values ------------------------ *)
Truthy(v) == IF v.t \in {"undef", "null", "false"} THEN FALSE
             ELSE IF v.t = "num" THEN v.n # 0
             ELSE IF v.t = "str" THEN v.s # <<>>
             ELSE TRUE

IsArray(v) == v.t = "arr"

IsString(v) == v.t = "str"

IsNullish(v) == v.t \in {"undef", "null"}

\* a ?? b
Coalesce(a, b) == IF IsNullish(a) THEN b ELSE a

\* a || b
OrElse(a, b) == IF Truthy(a) THEN a ELSE b

\* v.k throws a TypeError when v is null or undefined
CanRead(v) == ~IsNullish(v)

\* an object literal { k1: v1, ... }
RECURSIVE MakeObj(_, _)
MakeObj(keys, kids) ==
    IF keys = <<>> THEN JObj(<<>>, <<>>)
    ELSE SetProp(MakeObj(SubSeq(keys, 1, Len(keys) - 1), SubSeq(kids, 1, Len(kids) - 1)),
                 <<keys[Len(keys)]>>, kids[Len(kids)])

Word(w) == JStr(<<w>>)

(* --------------------------- JSON.stringify --------------------------- *)
RECURSIVE EscapeString(_)
EscapeString(s) ==
    IF s = <<>> THEN <<>>
    ELSE (IF s[1] = QT THEN <<BS, QT>>
          ELSE IF s[1] = BS THEN <<BS, BS>>
          ELSE IF s[1] = NL THEN <<BS, "n">>
          ELSE <<s[1]>>) \o EscapeString(Tail(s))

RECURSIVE NumberTokens(_)
NumberTokens(n) == IF n < 10 THEN <<Digits[n + 1]>>
                   ELSE Append(NumberTokens(n \div 10), Digits[(n % 10) + 1])

RECURSIVE Stringify(_)
RECURSIVE StringifyElements(_, _)
RECURSIVE StringifyMembers(_, _, _)

StringifyElements(kids, first) ==
    IF kids = <<>> THEN <<>>
    ELSE (IF first THEN <<>> ELSE <<CM>>)
         \o (IF kids[1].t = "undef" THEN <<"null">> ELSE Stringify(kids[1]))
         \o StringifyElements(Tail(kids), FALSE)

\* a property whose value is undefined is left out
StringifyMembers(keys, kids, first) ==
    IF keys = <<>> THEN <<>>
    ELSE IF kids[1].t = "undef" THEN StringifyMembers(Tail(keys), Tail(kids), first)
    ELSE (IF first THEN <<>> ELSE <<CM>>)
         \o <<QT>> \o EscapeString(keys[1]) \o <<QT, CO>> \o Stringify(kids[1])
         \o StringifyMembers(Tail(keys), Tail(kids), FALSE)

Stringify(v) ==
    IF v.t = "str" THEN <<QT>> \o EscapeString(v.s) \o <<QT>>
    ELSE IF v.t = "num" THEN NumberTokens(v.n)
    ELSE IF v.t \in {"true", "false", "null"} THEN <<v.t>>
    ELSE IF v.t = "arr" THEN <<LK>> \o StringifyElements(v.kids, TRUE) \o <<RK>>
    ELSE IF v.t = "obj" THEN <<LB>> \o StringifyMembers(v.keys, v.kids, TRUE) \o <<RB>>
    ELSE <<>>

(* ------------------------------- errors ------------------------------- *)
\* An Error of the source holds a message (and, where the message embeds it, the
\* raw response).  ctxStage and ctxTopic stand for context attached to the error
\* after it was thrown; no code of the chain sets them.
Err(src, msg) == [src |-> src, msg |-> msg, raw |-> <<>>, ctxStage |-> "", ctxTopic |-> ""]

NoErr == Err("none", "")

TypeErr == Err("TypeError", "cannot read properties")

\* an Error that holds the text it was given, whatever the stage
ParseErrWithRaw(agent, raw) ==
    [Err("extract", "Failed to parse JSON response: ") EXCEPT !.raw = raw]

\* the Error parseJSONSafely throws
ParseErr(agent, raw) ==
    IF Variant(agent) = "simple"
    THEN [Err("extract", IF GreedyPatternMatch(raw).found
                         THEN "Failed to parse JSON response: "
                         ELSE "No valid JSON found in response: ") EXCEPT !.raw = raw]
    ELSE Err("extract", "Failed to parse JSON response. The response may not be in the expected format.")

(* --------------------------- stage outcomes --------------------------- *)
\* What a stage's code does between two awaits: it issues the next call, or has
\* assembled its output, or throws.
ToCall(step, loc) == [kind |-> "call", step |-> step, loc |-> loc, out |-> JUndef, err |-> NoErr]

ToDone(out) == [kind |-> "done", step |-> "postOk", loc |-> JUndef, out |-> out, err |-> NoErr]

ToThrow(err) == [kind |-> "throw", step |-> "postErr", loc |-> JUndef, out |-> JUndef, err |-> err]

\* content.split(/\s+/).length: one more than the matches of /\s+/, which are the
\* maximal runs of whitespace
WsRuns(s) == Cardinality({i \in 1..Len(s) : IsWs(s[i]) /\ (i = 1 \/ ~IsWs(s[i - 1]))})

SplitLength(s) == WsRuns(s) + 1

WordsPerMinute == 200

\* Math.ceil(wordCount / wordsPerMinute)
calculateReadingTime(content) ==
    (SplitLength(content) + WordsPerMinute - 1) \div WordsPerMinute

(* ------------------------------ researcher ---------------------------- *)
DefaultNumResults == 5

\* .slice(0, numResults).map(result => ({title, snippet: content, link: url}))
RECURSIVE MapSearchResults(_)
MapSearchResults(rs) ==
    IF rs = <<>> THEN <<>>
    ELSE <<MakeObj(<<"title", "snippet", "link">>,
                   <<GetProp(rs[1], "title"), GetProp(rs[1], "content"), GetProp(rs[1], "url")>>)>>
         \o MapSearchResults(Tail(rs))

\* ResearcherAgent.execute up to its first await
ResearcherStart(input) == ToCall("search", JObj(<<>>, <<>>))

\* A researcher that keeps every result of the search: C23 must tell it from
\* ResearcherStep.
ResearcherKeepsAll(step, resp, input, loc) ==
    IF step = "search"
    THEN IF ~CanRead(resp) THEN ToThrow(TypeErr)
         ELSE ToCall("summary",
                     MakeObj(<<"searchResults">>,
                             <<JArr(MapSearchResults(
                                 IF IsArray(GetProp(resp, "results"))
                                 THEN GetProp(resp, "results").kids ELSE <<>>))>>))
    ELSE ToDone(MakeObj(<<"topic", "searchResults", "summary">>,
                        <<GetProp(input, "topic"), GetProp(loc, "searchResults"), JStr(resp)>>))

\* ResearcherAgent.execute from the await that has just resolved with resp
ResearcherStep(step, resp, input, loc) ==
    IF step = "search"
    THEN LET numResults == OrElse(GetProp(input, "numResults"), JNum(DefaultNumResults)).n
             results == IF IsArray(GetProp(resp, "results")) THEN GetProp(resp, "results").kids
                        ELSE <<>>
             first == SubSeq(results, 1, IF Len(results) < numResults THEN Len(results)
                                         ELSE numResults)
         IN IF ~CanRead(resp) THEN ToThrow(TypeErr)
            ELSE ToCall("summary", MakeObj(<<"searchResults">>, <<JArr(MapSearchResults(first))>>))
    ELSE ToDone(MakeObj(<<"topic", "searchResults", "summary">>,
                        <<GetProp(input, "topic"), GetProp(loc, "searchResults"), JStr(resp)>>))

(* ------------------------------- curator ------------------------------ *)
RelevanceThreshold == 7

\* the number relevanceScore >= 7 and b.relevanceScore - a.relevanceScore read;
\* the scores of the model are a number, or 0 after ?? 0
ScoreOf(r) == IF GetProp(r, "relevanceScore").t = "num" THEN GetProp(r, "relevanceScore").n
              ELSE 0

\* A map that gives each result the score and reason of the first scoring
\* element that names its title: C29 must tell it from AttachScores.
AttachScoresByTitle(results, scored, i) ==
    [j \in 1..(Len(results) - i + 1) |->
        LET r == results[i + j - 1]
            named == {k \in 1..Len(scored) : GetProp(scored[k], "title") = GetProp(r, "title")}
            sc == IF named = {} THEN JUndef
                  ELSE scored[CHOOSE k \in named : \A l \in named : k <= l]
        IN SetProp(SetProp(r, <<"relevanceScore">>,
                           Coalesce(GetProp(sc, "relevanceScore"), JNum(0))),
                   <<"reason">>,
                   Coalesce(GetProp(sc, "reason"), JStr(<<"No", SP, "reason", SP, "provided">>)))]

\* .map((result, index) => ({...result, relevanceScore, reason}))
RECURSIVE AttachScores(_, _, _)
AttachScores(results, scored, i) ==
    IF i > Len(results) THEN <<>>
    ELSE LET sc == IF i <= Len(scored) THEN scored[i] ELSE JUndef
         IN <<SetProp(SetProp(results[i], <<"relevanceScore">>,
                              Coalesce(GetProp(sc, "relevanceScore"), JNum(0))),
                      <<"reason">>,
                      Coalesce(GetProp(sc, "reason"), JStr(<<"No", SP, "reason", SP, "provided">>)))>>
            \o AttachScores(results, scored, i + 1)

\* .filter(result => result.relevanceScore >= 7)
RECURSIVE FilterRelevant(_)
FilterRelevant(rs) ==
    IF rs = <<>> THEN <<>>
    ELSE (IF ScoreOf(rs[1]) >= RelevanceThreshold THEN <<rs[1]>> ELSE <<>>)
         \o FilterRelevant(Tail(rs))

\* one element put before the elements of equal score
RECURSIVE InsertBeforeEqual(_, _)
InsertBeforeEqual(sorted, r) ==
    IF sorted = <<>> THEN <<r>>
    ELSE IF ScoreOf(sorted[1]) > ScoreOf(r)
    THEN <<sorted[1]>> \o InsertBeforeEqual(Tail(sorted), r)
    ELSE <<r>> \o sorted

\* one element put in its place in a list sorted by descending score, after
\* the elements of equal score (the sort is stable)
RECURSIVE InsertByScore(_, _)
InsertByScore(sorted, r) ==
    IF sorted = <<>> THEN <<r>>
    ELSE IF ScoreOf(sorted[1]) >= ScoreOf(r) THEN <<sorted[1]>> \o InsertByScore(Tail(sorted), r)
    ELSE <<r>> \o sorted

\* .sort((a, b) => b.relevanceScore - a.relevanceScore)
RECURSIVE SortByScore(_)
SortByScore(rs) ==
    IF rs = <<>> THEN <<>>
    ELSE InsertByScore(SortByScore(SubSeq(rs, 1, Len(rs) - 1)), rs[Len(rs)])

\* CuratorAgent.execute up to its first await
CuratorStart(input) ==
    IF IsArray(GetProp(input, "searchResults")) THEN ToCall("scoring", JObj(<<>>, <<>>))
    ELSE ToThrow(TypeErr)

\* CuratorAgent.execute from the parseJSONSafely call on the response, which gave p
CuratorParsed(step, p, resp, input, loc) ==
    IF ~p.ok THEN ToThrow(ParseErr("curator", resp))
    ELSE IF step = "scoring"
    THEN IF ~IsArray(p.val) THEN ToThrow(Err("validate", "Scoring response is not an array"))
         ELSE ToCall("curation",
                     MakeObj(<<"scoredResults", "selectedResults">>,
                             <<p.val,
                               JArr(SortByScore(FilterRelevant(
                                   AttachScores(GetProp(input, "searchResults").kids,
                                                p.val.kids, 1))))>>))
    ELSE IF ~CanRead(p.val) THEN ToThrow(TypeErr)
    ELSE IF ~Truthy(GetProp(p.val, "curatedSummary"))
            \/ ~IsArray(GetProp(p.val, "suggestedAngles"))
    THEN ToThrow(Err("validate", "Invalid curation response format"))
    ELSE ToDone(MakeObj(<<"topic", "selectedResults", "curatedSummary", "suggestedAngles">>,
                        <<GetProp(input, "topic"), GetProp(loc, "selectedResults"),
                          GetProp(p.val, "curatedSummary"),
                          GetProp(p.val, "suggestedAngles")>>))

\* CuratorAgent.execute from the await that has just resolved with resp
CuratorStep(step, resp, input, loc) ==
    CuratorParsed(step, ParseJSONSafely("curator", resp), resp, input, loc)

(* -------------------------------- writer ------------------------------ *)
\* input.selectedResults.map(r => r.link)
RECURSIVE MapLinks(_)
MapLinks(rs) == IF rs = <<>> THEN <<>> ELSE <<GetProp(rs[1], "link")>> \o MapLinks(Tail(rs))

\* WriterAgent.execute up to its first await
WriterStart(input) ==
    IF IsArray(GetProp(input, "suggestedAngles")) THEN ToCall("structure", JObj(<<>>, <<>>))
    ELSE ToThrow(TypeErr)

\* the record WriterAgent.execute returns
WriterOutput(input, structure, post, content) ==
    MakeObj(<<"topic", "title", "content", "metadata">>,
            <<GetProp(input, "topic"),
              GetProp(structure, "title"),
              content,
              MakeObj(<<"wordCount", "readingTime", "targetAudience", "keyTakeaways", "sources">>,
                      <<JNum(SplitLength(content.s)),
                        JNum(calculateReadingTime(content.s)),
                        OrElse(GetProp(structure, "targetAudience"),
                               JStr(<<"General", SP, "audience">>)),
                        IF IsArray(GetProp(post, "keyTakeaways"))
                        THEN GetProp(post, "keyTakeaways") ELSE JArr(<<>>),
                        JArr(MapLinks(GetProp(input, "selectedResults").kids))>>)>>)

\* WriterAgent.execute from the parseJSONSafely call on the response, which gave p
WriterParsed(step, p, resp, input, loc) ==
    IF ~p.ok THEN ToThrow(ParseErr("writer", resp))
    ELSE IF step = "structure"
    THEN IF ~CanRead(p.val) \/ ~IsArray(GetProp(input, "selectedResults"))
         THEN ToThrow(TypeErr)
         ELSE ToCall("writing", MakeObj(<<"structure">>, <<p.val>>))
    ELSE IF ~CanRead(p.val) \/ ~IsString(GetProp(p.val, "content")) THEN ToThrow(TypeErr)
    ELSE ToDone(WriterOutput(input, GetProp(loc, "structure"), p.val, GetProp(p.val, "content")))

\* WriterAgent.execute from the await that has just resolved with resp
WriterStep(step, resp, input, loc) ==
    WriterParsed(step, ParseJSONSafely("writer", resp), resp, input, loc)

(* ------------------------------- critiquer ---------------------------- *)
\* CritiquerAgent.execute up to its first await
CritiquerStart(input) == ToCall("analysis", JObj(<<>>, <<>>))

\* A critiquer that returns the analysis as the generator gave it: C7 must tell it
\* from CritiquerParsed.
CritiquerReturnsAnalysis(p, resp, input) ==
    IF ~p.ok THEN ToThrow(ParseErr("critiquer", resp))
    ELSE IF ~CanRead(p.val) THEN ToThrow(TypeErr)
    ELSE ToDone(p.val)

\* CritiquerAgent.execute from the parseJSONSafely call on the response, which gave p
CritiquerParsed(p, resp, input) ==
    IF ~p.ok THEN ToThrow(ParseErr("critiquer", resp))
    ELSE IF ~CanRead(p.val) THEN ToThrow(TypeErr)
    ELSE IF \/ ~Truthy(GetProp(p.val, "overallScore"))
            \/ ~Truthy(GetProp(p.val, "feedback"))
            \/ ~Truthy(GetProp(p.val, "contentIssues"))
            \/ ~Truthy(GetProp(p.val, "seoAnalysis"))
    THEN ToThrow(Err("validate", "Invalid critique format"))
    ELSE ToDone(MakeObj(
        <<"topic", "overallScore", "feedback", "contentIssues", "seoAnalysis">>,
        <<GetProp(input, "topic"), GetProp(p.val, "overallScore"),
          GetProp(p.val, "feedback"), GetProp(p.val, "contentIssues"),
          GetProp(p.val, "seoAnalysis")>>))

\* CritiquerAgent.execute from the await that has just resolved with resp
CritiquerStep(step, resp, input, loc) ==
    CritiquerParsed(ParseJSONSafely("critiquer", resp), resp, input)

(* -------------------------------- editor ------------------------------ *)
\* createPlanningPrompt(input) reads these without a check; each throws a
\* TypeError when the value is not there
PlanningPromptOk(input) ==
    LET critique == GetProp(input, "critique")
        feedback == GetProp(critique, "feedback")
        issues == GetProp(critique, "contentIssues")
    IN /\ CanRead(GetProp(input, "metadata"))
       /\ CanRead(critique)
       /\ IsArray(GetProp(feedback, "strengths"))
       /\ IsArray(GetProp(feedback, "weaknesses"))
       /\ IsArray(GetProp(feedback, "suggestions"))
       /\ IsArray(issues)
       /\ \A i \in 1..Len(issues.kids) : IsString(GetProp(issues.kids[i], "type"))

\* validateImprovementPlan(plan): the Error it throws, or NoErr
validateImprovementPlan(plan) ==
    LET ip == GetProp(plan, "improvementPlan")
        seo == GetProp(ip, "seoOptimizations")
    IN IF ~CanRead(plan) THEN TypeErr
       ELSE IF ~Truthy(ip) THEN Err("validate", "Missing improvementPlan in response")
       ELSE IF GetProp(GetProp(ip, "titleChanges"), "shouldChange").t \notin {"true", "false"}
       THEN Err("validate", "Invalid titleChanges format")
       ELSE IF ~IsArray(GetProp(ip, "structuralChanges"))
       THEN Err("validate", "structuralChanges must be an array")
       ELSE IF ~IsArray(GetProp(ip, "styleImprovements"))
       THEN Err("validate", "styleImprovements must be an array")
       ELSE IF ~Truthy(GetProp(seo, "keywords")) \/ ~IsArray(GetProp(seo, "keywords"))
       THEN Err("validate", "Invalid seoOptimizations format")
       ELSE NoErr

\* validateImprovements(improvements): the Error it throws, or NoErr
validateImprovements(improvements) ==
    IF ~CanRead(improvements) THEN TypeErr
    ELSE IF ~Truthy(GetProp(improvements, "title")) \/ ~IsString(GetProp(improvements, "title"))
    THEN Err("validate", "Missing or invalid title in improvements")
    ELSE IF ~Truthy(GetProp(improvements, "content")) \/ ~IsString(GetProp(improvements, "content"))
    THEN Err("validate", "Missing or invalid content in improvements")
    ELSE IF ~IsArray(GetProp(improvements, "keyTakeaways"))
    THEN Err("validate", "keyTakeaways must be an array")
    ELSE IF ~IsArray(GetProp(improvements, "changeLog"))
    THEN Err("validate", "changeLog must be an array")
    ELSE NoErr

\* EditorAgent.execute up to its first await
EditorStart(input) ==
    IF PlanningPromptOk(input) THEN ToCall("planning", JObj(<<>>, <<>>)) ELSE ToThrow(TypeErr)

\* the record EditorAgent.execute returns
EditorOutput(input, seo, improvements, content) ==
    MakeObj(<<"topic", "title", "content", "metadata", "changeLog">>,
            <<GetProp(input, "topic"),
              GetProp(improvements, "title"),
              content,
              MakeObj(<<"wordCount", "readingTime", "targetAudience", "keyTakeaways",
                        "sources", "metaDescription", "keywords">>,
                      <<JNum(SplitLength(content.s)),
                        JNum(calculateReadingTime(content.s)),
                        GetProp(GetProp(input, "metadata"), "targetAudience"),
                        GetProp(improvements, "keyTakeaways"),
                        GetProp(GetProp(input, "metadata"), "sources"),
                        GetProp(seo, "metaDescription"),
                        GetProp(seo, "keywords")>>),
              GetProp(improvements, "changeLog")>>)

\* EditorAgent.execute from the parseJSONSafely call on the response, which gave p
EditorParsed(step, p, resp, input, loc) ==
    IF ~p.ok THEN ToThrow(ParseErr("editor", resp))
    ELSE IF step = "planning"
    THEN IF validateImprovementPlan(p.val) # NoErr
         THEN ToThrow(validateImprovementPlan(p.val))
         ELSE ToCall("editing", MakeObj(<<"plan">>, <<p.val>>))
    ELSE IF validateImprovements(p.val) # NoErr THEN ToThrow(validateImprovements(p.val))
    ELSE ToDone(EditorOutput(
        input,
        GetProp(GetProp(GetProp(loc, "plan"), "improvementPlan"), "seoOptimizations"),
        p.val, GetProp(p.val, "content")))

\* EditorAgent.execute from the await that has just resolved with resp
EditorStep(step, resp, input, loc) ==
    EditorParsed(step, ParseJSONSafely("editor", resp), resp, input, loc)

(* ------------------------------- publisher ---------------------------- *)
\* the record PublisherAgent.execute returns
PublisherOutput(input, github) ==
    LET date == JStr(<<"date">>)
        meta == IF GetProp(input, "metadata").t = "obj" THEN GetProp(input, "metadata")
                ELSE JObj(<<>>, <<>>)
    IN MakeObj(<<"topic", "title", "filePath", "publishedDate", "url", "metadata">>,
               <<GetProp(input, "topic"), GetProp(input, "title"), JStr(<<"path">>), date,
                 JStr(IF github THEN <<"https", "path">> ELSE <<"file", "path">>),
                 SetProp(SetProp(meta, <<"publishedDate">>, date), <<"lastModified">>, date)>>)

\* PublisherAgent.execute up to its first await
PublisherStart(input) == ToCall("formatting", JObj(<<>>, <<>>))

\* PublisherAgent.execute from the parseJSONSafely call on the response, which gave p
PublisherParsed(p, resp, input, github) ==
    IF ~p.ok THEN ToThrow(ParseErr("publisher", resp))
    ELSE IF github THEN ToCall("init", MakeObj(<<"formatted">>, <<p.val>>))
    ELSE IF ~IsString(GetProp(input, "title")) THEN ToThrow(TypeErr)
    ELSE ToCall("mkdir", MakeObj(<<"formatted">>, <<p.val>>))

\* PublisherAgent.execute from the await that has just resolved with resp;
\* github: the agent was constructed with a githubUsername
PublisherStep(step, resp, input, loc, github) ==
    IF step = "formatting"
    THEN PublisherParsed(ParseJSONSafely("publisher", resp), resp, input, github)
    ELSE IF step = "init"
    THEN IF ~IsString(GetProp(input, "title")) THEN ToThrow(TypeErr) ELSE ToCall("mkdir", loc)
    ELSE IF step = "mkdir"
    THEN IF ~CanRead(GetProp(loc, "formatted")) THEN ToThrow(TypeErr) ELSE ToCall("write", loc)
    ELSE IF step = "write" /\ github THEN ToCall("push", loc)
    ELSE ToDone(PublisherOutput(input, github))

(* ------------------------------ the chain ----------------------------- *)
\* A chain that awaits the writer before the curator: C1 must tell it from StageOrder.
StageOrderSwapped == <<"researcher", "writer", "curator", "critiquer", "editor", "publisher">>

\* The order in which createBlogChain awaits the agents.
StageOrder == <<"researcher", "curator", "writer", "critiquer", "editor", "publisher">>

Agents == {StageOrder[k] : k \in 1..Len(StageOrder)}

\* the argument createBlogChain passes to an agent's execute
StageInput(agent, t, r) ==
    IF agent = "researcher" THEN MakeObj(<<"topic">>, <<JStr(<<t>>)>>)
    ELSE IF agent = "curator"
    THEN MakeObj(<<"topic", "searchResults", "summary">>,
                 <<JStr(<<t>>), GetProp(r["researcher"], "searchResults"),
                   GetProp(r["researcher"], "summary")>>)
    ELSE IF agent = "writer"
    THEN MakeObj(<<"topic", "selectedResults", "curatedSummary", "suggestedAngles">>,
                 <<JStr(<<t>>), GetProp(r["curator"], "selectedResults"),
                   GetProp(r["curator"], "curatedSummary"),
                   GetProp(r["curator"], "suggestedAngles")>>)
    ELSE IF agent = "critiquer"
    THEN MakeObj(<<"topic", "title", "content", "metadata">>,
                 <<JStr(<<t>>), GetProp(r["writer"], "title"), GetProp(r["writer"], "content"),
                   GetProp(r["writer"], "metadata")>>)
    ELSE IF agent = "editor"
    THEN MakeObj(<<"topic", "title", "content", "metadata", "critique">>,
                 <<JStr(<<t>>), GetProp(r["writer"], "title"), GetProp(r["writer"], "content"),
                   GetProp(r["writer"], "metadata"), r["critiquer"]>>)
    ELSE MakeObj(<<"topic", "title", "content", "metadata", "changeLog">>,
                 <<JStr(<<t>>), GetProp(r["editor"], "title"), GetProp(r["editor"], "content"),
                   GetProp(r["editor"], "metadata"), GetProp(r["editor"], "changeLog")>>)

\* the value the chain returns
\* A chain that returns the change log without its first entry: C24 must tell it
\* from FinalOutput.
FinalOutputDropsEntry(t, r) ==
    MakeObj(<<"topic", "title", "content", "filePath", "publishedDate", "url", "metadata",
              "changeLog">>,
            <<JStr(<<t>>), GetProp(r["publisher"], "title"), GetProp(r["editor"], "content"),
              GetProp(r["publisher"], "filePath"), GetProp(r["publisher"], "publishedDate"),
              GetProp(r["publisher"], "url"), GetProp(r["publisher"], "metadata"),
              JArr(Tail(GetProp(r["editor"], "changeLog").kids))>>)

\* the value the chain returns
FinalOutput(t, r) ==
    MakeObj(<<"topic", "title", "content", "filePath", "publishedDate", "url", "metadata",
              "changeLog">>,
            <<JStr(<<t>>), GetProp(r["publisher"], "title"), GetProp(r["editor"], "content"),
              GetProp(r["publisher"], "filePath"), GetProp(r["publisher"], "publishedDate"),
              GetProp(r["publisher"], "url"), GetProp(r["publisher"], "metadata"),
              GetProp(r["editor"], "changeLog")>>)

\* A chain that catches the rejection and rethrows it with the stage and the topic
\* on it: C6 must tell it from Surface.
SurfaceWithContext(err, agent, t) == [err EXCEPT !.ctxStage = agent, !.ctxTopic = t]

\* the error the chain's caller gets when an execute rejects with err: the chain
\* has no catch, the rejection passes through it as it is
Surface(err, agent, t) == err

\* A chain that swallows the rejection and resolves: C2 must tell it from
\* RunStateAfterThrow.
ResolvedAfterThrow == "done"

\* the run after an awaited execute has rejected
RunStateAfterThrow == "failed"

\* an agent's execute up to its first await
StageStart(agent, in) ==
    IF agent = "researcher" THEN ResearcherStart(in)
    ELSE IF agent = "curator" THEN CuratorStart(in)
    ELSE IF agent = "writer" THEN WriterStart(in)
    ELSE IF agent = "critiquer" THEN CritiquerStart(in)
    ELSE IF agent = "editor" THEN EditorStart(in)
    ELSE PublisherStart(in)

\* an agent's execute from the await of call st, which has resolved with resp
StageStep(agent, st, resp, in, lc, gh) ==
    IF agent = "researcher" THEN ResearcherStep(st, resp, in, lc)
    ELSE IF agent = "curator" THEN CuratorStep(st, resp, in, lc)
    ELSE IF agent = "writer" THEN WriterStep(st, resp, in, lc)
    ELSE IF agent = "critiquer" THEN CritiquerStep(st, resp, in, lc)
    ELSE IF agent = "editor" THEN EditorStep(st, resp, in, lc)
    ELSE PublisherStep(st, resp, in, lc, gh)

(* --------------------------- the collaborators ------------------------ *)
\* the collaborator a call goes to
CollaboratorOf(st) == IF st = "search" THEN "search"
                      ELSE IF st \in {"init", "mkdir", "write", "push"} THEN "sink"
                      ELSE IF st \in {"postOk", "postErr"} THEN "telemetry"
                      ELSE "generator"

Topics == {"ai", "tla"}

Hit(w) == MakeObj(<<"title", "content", "url">>, <<Word(w), Word("c"), Word("u")>>)

SearchResponses == {MakeObj(<<"results">>, <<JArr(<<Hit("A"), Hit("B")>>)>>),
                    MakeObj(<<"results">>, <<JArr(<<Hit("A"), Hit("B"), Hit("C"), Hit("D")>>)>>),
                    JObj(<<>>, <<>>)}

Score(n) == MakeObj(<<"title", "relevanceScore", "reason">>, <<Word("A"), JNum(n), Word("r")>>)

\* a scoring entry whose score is null
Unscored == MakeObj(<<"relevanceScore", "reason">>, <<JNull, Word("r")>>)

\* a scoring entry that holds a score alone
Bare(n) == MakeObj(<<"relevanceScore">>, <<JNum(n)>>)

ScoringValues == {JArr(<<Score(9), Score(7)>>),
                  JArr(<<Bare(6), Score(8)>>),
                  JArr(<<Bare(9), Bare(6), Bare(8), Bare(7)>>),
                  JArr(<<Bare(7), Bare(9), Bare(7), Bare(9)>>),
                  JArr(<<Score(9), Unscored, MakeObj(<<"reason">>, <<Word("r")>>), Score(8)>>),
                  JObj(<<>>, <<>>)}

CurationValues == {MakeObj(<<"curatedSummary", "suggestedAngles">>,
                           <<Word("cs"), JArr(<<Word("x")>>)>>),
                   MakeObj(<<"curatedSummary">>, <<Word("cs")>>)}

StructureValues == {MakeObj(<<"title", "targetAudience", "outline">>,
                            <<Word("T"), Word("ta"), JArr(<<>>)>>),
                    MakeObj(<<"targetAudience", "outline">>, <<Word("ta"), JArr(<<>>)>>),
                    MakeObj(<<"title", "outline">>, <<JNum(7), JArr(<<>>)>>)}

WritingValues == {MakeObj(<<"content", "keyTakeaways">>,
                          <<JStr(<<"w", SP, "w", NL, "w">>), JArr(<<Word("k")>>)>>),
                  MakeObj(<<"content">>, <<Word("w")>>),
                  MakeObj(<<"keyTakeaways">>, <<JArr(<<>>)>>)}

Feedback == MakeObj(<<"strengths", "weaknesses", "suggestions">>,
                    <<JArr(<<>>), JArr(<<>>), JArr(<<>>)>>)

\* a critique that also names a topic of its own
Critique(score, feedback) ==
    MakeObj(<<"topic", "overallScore", "feedback", "contentIssues", "seoAnalysis">>,
            <<Word("other"), JNum(score), feedback, JArr(<<>>), JObj(<<>>, <<>>)>>)

\* a critique with one content issue of the given severity
IssueCritique(severity) ==
    MakeObj(<<"overallScore", "feedback", "contentIssues", "seoAnalysis">>,
            <<JNum(8), Feedback,
              JArr(<<MakeObj(<<"type", "severity">>, <<Word("t"), Word(severity)>>)>>),
              JObj(<<>>, <<>>)>>)

CritiqueValues == {Critique(8, Feedback), Critique(0, Feedback),
                   IssueCritique("urgent"), IssueCritique("low"),
                   Critique(8, MakeObj(<<"strengths">>, <<JArr(<<>>)>>))}

Plan(seo) ==
    MakeObj(<<"improvementPlan">>,
            <<MakeObj(<<"titleChanges", "structuralChanges", "styleImprovements",
                        "seoOptimizations">>,
                      <<MakeObj(<<"shouldChange">>, <<JBool(TRUE)>>), JArr(<<>>), JArr(<<>>),
                        seo>>)>>)

PlanValues == {Plan(MakeObj(<<"keywords", "metaDescription">>, <<JArr(<<Word("k")>>), Word("md")>>)),
               Plan(MakeObj(<<"keywords">>, <<JArr(<<Word("k")>>)>>)),
               JObj(<<>>, <<>>)}

EditValues == {MakeObj(<<"title", "content", "keyTakeaways", "changeLog">>,
                       <<Word("T2"), JStr(<<"e", SP, "e">>), JArr(<<>>),
                         JArr(<<MakeObj(<<"type", "description">>, <<Word("title"), Word("d")>>),
                                MakeObj(<<"type">>, <<Word("style")>>)>>)>>),
               MakeObj(<<"title", "content">>, <<Word("T2"), Word("e")>>)}

FormatValues == {MakeObj(<<"formattedContent", "excerpt">>, <<Word("f"), Word("e")>>),
                 MakeObj(<<"excerpt">>, <<Word("e")>>)}

\* the texts a generator call answers with: the JSON asked for, bare or in a code
\* block after a line of prose, or no JSON at all
Texts(values) == {Stringify(v) : v \in values}
                 \cup {<<"Here", NL, FENCE, "json", NL>> \o Stringify(v) \o <<NL, FENCE>> :
                       v \in values}
                 \cup {<<"sorry">>}

\* what a call resolves with
Responses(agent, st) ==
    IF st = "search" THEN SearchResponses
    ELSE IF st = "summary" THEN {<<"sum">>}
    ELSE IF st = "scoring" THEN Texts(ScoringValues)
    ELSE IF st = "curation" THEN Texts(CurationValues)
    ELSE IF st = "structure" THEN Texts(StructureValues)
    ELSE IF st = "writing" THEN Texts(WritingValues)
    ELSE IF st = "analysis" THEN Texts(CritiqueValues)
    ELSE IF st = "planning" THEN Texts(PlanValues)
    ELSE IF st = "editing" THEN Texts(EditValues)
    ELSE IF st = "formatting" THEN Texts(FormatValues)
    ELSE {<<"ok">>}

\* fs.writeFile rejects data that is not a string
CallCanSucceed(st, lc) ==
    st = "write" => IsString(GetProp(GetProp(lc, "formatted"), "formattedContent"))

(* ------------------------------ telemetry ----------------------------- *)
\* new RunTree({name, inputs: {topic}})
NewSpan(agent, t) == [agent |-> agent, topic |-> t, outputs |-> FALSE, error |-> NoErr, ends |-> 0]

NoSpan == NewSpan("none", "")

\* runTree.end({outputs})
EndWithOutputs(sp) == [sp EXCEPT !.outputs = TRUE, !.ends = @ + 1]

\* A catch block that ends the span without the error: C3 must tell it from
\* EndWithError.
EndWithoutError(sp, err) == [sp EXCEPT !.ends = @ + 1]

\* runTree.end({error})
EndWithError(sp, err) == [sp EXCEPT !.error = err, !.ends = @ + 1]

\* what runTree.postRun() hands the collaborator; ok: the collaborator took it
Posted(sp, ok) == [agent |-> sp.agent, topic |-> sp.topic, outputs |-> sp.outputs,
                   error |-> sp.error, ok |-> ok]

TelemetryErr == Err("telemetry", "postRun failed")

(* ------------------------------- actions ------------------------------ *)
NoRecs == [a \in Agents |-> JUndef]

\* The code of stage k has run from its start or from a resolved await and has
\* issued a call (o.kind = "call"), has assembled its output, ended the runTree with
\* it and issued postRun ("done"), or has thrown into its catch block, which ends
\* the runTree with the error and issues postRun ("throw").
Reach(k, o, sp, awaited) ==
    /\ stage' = k
    /\ call' = o.step
    /\ inflight' = (inflight \ awaited) \cup {<<StageOrder[k], o.step>>}
    /\ issued' = IF o.kind = "call" THEN Append(issued, <<StageOrder[k], o.step>>) ELSE issued
    /\ locals' = IF o.kind = "call" THEN o.loc ELSE locals
    /\ output' = IF o.kind = "done" THEN o.out ELSE output
    /\ caught' = IF o.kind = "throw" THEN o.err ELSE caught
    /\ runTree' = IF o.kind = "done" THEN EndWithOutputs(sp)
               ELSE IF o.kind = "throw" THEN EndWithError(sp, o.err)
               ELSE sp

\* createBlogChain calls the execute of stage k
Begin(k, t, r, sts, awaited) ==
    /\ stageInput' = StageInput(StageOrder[k], t, r)
    /\ started' = Append(started, StageOrder[k])
    /\ status' = [sts EXCEPT ![StageOrder[k]] = "running"]
    /\ Reach(k, StageStart(StageOrder[k], StageInput(StageOrder[k], t, r)),
             NewSpan(StageOrder[k], t), awaited)

\* the credentials process.env may hold
Keys == {"OPENAI_API_KEY", "TAVILY_API_KEY"}

\* the credentials an agent's constructor tests, in the order of the tests
RequiredKeys(agent) == IF agent = "researcher" THEN <<"TAVILY_API_KEY", "OPENAI_API_KEY">>
                       ELSE <<"OPENAI_API_KEY">>

\* new Error("... environment variable is not set")
ConfigErr(k) == Err("config", k)

\* the first of the keys ks that e does not hold, as the Error thrown for it
RECURSIVE FirstMissing(_, _)
FirstMissing(ks, e) == IF ks = <<>> THEN NoErr
                       ELSE IF ks[1] \notin e THEN ConfigErr(ks[1])
                       ELSE FirstMissing(Tail(ks), e)

\* A constructor that tests no credential: C22 must tell it from ConstructorErr.
ConstructorNeverThrows(agent, e) == NoErr

\* new XAgent() under the credentials e: the Error it throws, or NoErr
ConstructorErr(agent, e) == FirstMissing(RequiredKeys(agent), e)

\* the agents createBlogChain constructs, in order; the publisher is constructed
\* by the first step of the chain
BuiltAtCreation == <<"researcher", "curator", "writer", "critiquer", "editor">>

\* the Error of the first constructor that throws
RECURSIVE FirstConstructorErr(_, _)
FirstConstructorErr(agents, e) ==
    IF agents = <<>> THEN NoErr
    ELSE IF ConstructorErr(agents[1], e) # NoErr THEN ConstructorErr(agents[1], e)
    ELSE FirstConstructorErr(Tail(agents), e)

\* delete process.env[k], before the chain is created or between its creation
\* and its invocation (no code reads process.env during a run)
UnsetKey(k) ==
    /\ pc = "idle"
    /\ chain \in {"none", "created"}
    /\ k \in env
    /\ env' = env \ {k}
    /\ UNCHANGED <<exVars, mdVars, rsVars, chain, createdWith, configErr, topic, hasGithub, pc, stage,
                   call, stageInput, locals, output, caught, runTree, tele, inflight, recs,
                   status, started, issued, thrown, collabErr, runError, result, files>>

\* createBlogChain()
CreateBlogChain ==
    /\ pc = "idle"
    /\ chain = "none"
    /\ createdWith' = env
    /\ configErr' = FirstConstructorErr(BuiltAtCreation, env)
    /\ chain' = IF FirstConstructorErr(BuiltAtCreation, env) = NoErr THEN "created" ELSE "failed"
    /\ UNCHANGED <<exVars, mdVars, rsVars, env, topic, hasGithub, pc, stage, call, stageInput, locals,
                   output, caught, runTree, tele, inflight, recs, status, started, issued,
                   thrown, collabErr, runError, result, files>>

\* chain.invoke({topic, githubUsername?}): the first step constructs the
\* publisher, the second calls the agents
Invoke(t, gh) ==
    /\ pc = "idle"
    /\ chain = "created"
    /\ topic' = t
    /\ hasGithub' = gh
    /\ IF ConstructorErr("publisher", env) = NoErr
       THEN /\ pc' = "running"
            /\ Begin(1, t, recs, status, {})
            /\ UNCHANGED configErr
       ELSE /\ pc' = "rejected"
            /\ configErr' = ConstructorErr("publisher", env)
            /\ UNCHANGED <<stage, call, stageInput, locals, output, caught, runTree, inflight,
                           status, started, issued>>
    /\ UNCHANGED <<exVars, mdVars, rsVars, env, chain, createdWith, tele, recs, thrown, collabErr,
                   runError, result, files>>

Awaiting == pc = "running" /\ call \notin {"postOk", "postErr"}

\* the search, generator or sink call the stage awaits resolves
CallReturns(resp) ==
    /\ Awaiting
    /\ CallCanSucceed(call, locals)
    /\ Reach(stage, StageStep(StageOrder[stage], call, resp, stageInput, locals, hasGithub), runTree,
             {<<StageOrder[stage], call>>})
    /\ files' = IF call = "write" THEN files \cup {GetProp(PublisherOutput(stageInput, hasGithub), "filePath")}
                ELSE files
    /\ UNCHANGED <<exVars, mdVars, rsVars, cfgVars, topic, hasGithub, pc, stageInput, tele, recs, status, started, thrown,
                   collabErr, runError, result>>

\* A stage that sends the call again when it has failed: C20 must tell it from
\* CallFails.
CallFailsAndRetries ==
    /\ Awaiting
    /\ Reach(stage, ToCall(call, locals), runTree, {<<StageOrder[stage], call>>})
    /\ UNCHANGED <<exVars, mdVars, rsVars, cfgVars, topic, hasGithub, pc, stageInput, tele, recs, status, started,
                   thrown, collabErr, runError, result, files>>

\* the call the stage awaits rejects
CallFails ==
    LET err == Err(CollaboratorOf(call), call)
    IN /\ Awaiting
       /\ Reach(stage, ToThrow(err), runTree, {<<StageOrder[stage], call>>})
       /\ collabErr' = IF CollaboratorOf(call) \in {"generator", "search"} THEN err ELSE collabErr
       /\ UNCHANGED <<exVars, mdVars, rsVars, cfgVars, topic, hasGithub, pc, stageInput, tele, recs, status, started, thrown,
                      runError, result, files>>

\* the properties of earlier records that createBlogChain passes to an agent by
\* reference (arrays and objects; strings cannot be changed in place)
SharedFields(agent) ==
    IF agent = "curator" THEN {<<"researcher", <<"searchResults">>>>}
    ELSE IF agent = "writer"
    THEN {<<"curator", <<"selectedResults">>>>, <<"curator", <<"suggestedAngles">>>>}
    ELSE IF agent \in {"critiquer", "editor"} THEN {<<"writer", <<"metadata">>>>}
    ELSE IF agent = "publisher"
    THEN {<<"editor", <<"metadata">>>>, <<"editor", <<"changeLog">>>>}
    ELSE {}

\* A curator that scores, filters and sorts input.searchResults in place, and a
\* publisher that adds the dates to input.metadata itself: C25 must tell them
\* from InputLeftBy.
InputChangedInPlace(agent, input, loc, out) ==
    IF agent = "curator"
    THEN SetProp(input, <<"searchResults">>, GetProp(loc, "selectedResults"))
    ELSE IF agent = "publisher"
    THEN SetProp(input, <<"metadata">>, GetProp(out, "metadata"))
    ELSE input

\* the argument of execute as execute leaves it. No agent assigns to its input
\* or to a value reached through it: the curator's map and filter build new
\* arrays of new objects and its sort, the one in-place operation, is applied
\* to the array filter returned; the publisher spreads input.metadata into a
\* new object.
InputLeftBy(agent, input, loc, out) == input

\* the records the chain holds when agent has returned out: the agent's own,
\* and the earlier ones seen through the references the agent was given
RecordsAfter(agent, r, inAfter, out) ==
    [a \in Agents |->
        IF a = agent THEN out
        ELSE IF agent = "editor" /\ a = "critiquer" THEN GetProp(inAfter, "critique")
        ELSE IF r[a].t # "obj" THEN r[a]
        ELSE [r[a] EXCEPT !.kids =
                 [i \in 1..Len(r[a].kids) |->
                     IF <<a, r[a].keys[i]>> \in SharedFields(agent)
                     THEN inAfter.kids[KeyIndex(inAfter.keys, r[a].keys[i])]
                     ELSE r[a].kids[i]]]]

\* postRun after end({outputs}) resolves: execute returns its output, and the
\* chain calls the next agent or returns
PostOkReturns ==
    LET agent == StageOrder[stage]
        r == RecordsAfter(agent, recs, InputLeftBy(agent, stageInput, locals, output), output)
    IN /\ pc = "running" /\ call = "postOk"
       /\ tele' = Append(tele, Posted(runTree, TRUE))
       /\ recs' = r
       /\ IF stage < Len(StageOrder)
          THEN /\ Begin(stage + 1, topic, r, [status EXCEPT ![agent] = "returned"],
                        {<<agent, call>>})
               /\ UNCHANGED <<pc, result>>
          ELSE /\ pc' = "done"
               /\ result' = FinalOutput(topic, r)
               /\ status' = [status EXCEPT ![agent] = "returned"]
               /\ inflight' = inflight \ {<<agent, call>>}
               /\ UNCHANGED <<stage, call, stageInput, locals, output, caught, runTree, started,
                              issued>>
       /\ UNCHANGED <<exVars, mdVars, rsVars, cfgVars, topic, hasGithub, thrown, collabErr, runError, files>>

\* postRun after end({outputs}) rejects: the rejection is thrown inside the try
PostOkFails ==
    /\ pc = "running" /\ call = "postOk"
    /\ tele' = Append(tele, Posted(runTree, FALSE))
    /\ Reach(stage, ToThrow(TelemetryErr), runTree, {<<StageOrder[stage], call>>})
    /\ UNCHANGED <<exVars, mdVars, rsVars, cfgVars, topic, hasGithub, pc, stageInput, recs, status, started, thrown, collabErr,
                   runError, result, files>>

\* execute rejects with err, and with it the chain
Reject(err) ==
    /\ status' = [status EXCEPT ![StageOrder[stage]] = "threw"]
    /\ thrown' = err
    /\ runError' = Surface(err, StageOrder[stage], topic)
    /\ pc' = RunStateAfterThrow
    /\ inflight' = inflight \ {<<StageOrder[stage], call>>}
    /\ UNCHANGED <<exVars, mdVars, rsVars, cfgVars, topic, hasGithub, stage, call, stageInput, locals, output, caught,
                   runTree, recs, started, issued, collabErr, result, files>>

\* postRun in the catch block resolves: throw error
PostErrReturns ==
    /\ pc = "running" /\ call = "postErr"
    /\ tele' = Append(tele, Posted(runTree, TRUE))
    /\ Reject(caught)

\* postRun in the catch block rejects: its rejection leaves execute
PostErrFails ==
    /\ pc = "running" /\ call = "postErr"
    /\ tele' = Append(tele, Posted(runTree, FALSE))
    /\ Reject(TelemetryErr)

RunInit == /\ env = Keys
           /\ chain = "none"
           /\ createdWith = {}
           /\ configErr = NoErr
           /\ topic = ""
           /\ hasGithub = FALSE
           /\ pc = "idle"
           /\ stage = 0
           /\ call = ""
           /\ stageInput = JUndef
           /\ locals = JUndef
           /\ output = JUndef
           /\ caught = NoErr
           /\ runTree = NoSpan
           /\ tele = <<>>
           /\ inflight = {}
           /\ recs = NoRecs
           /\ status = [a \in Agents |-> "pending"]
           /\ started = <<>>
           /\ issued = <<>>
           /\ thrown = NoErr
           /\ collabErr = NoErr
           /\ runError = NoErr
           /\ result = JUndef
           /\ files = {}

(* ------------------- parseJSONSafely, attempt by attempt ------------------- *)
\* Bounds of the texts handed to parseJSONSafely.
MaxEnumLen == 3

EnumAlphabet == {LK, RK, QT, "7", SP, LB, RB}

\* every text of at most n tokens of EnumAlphabet
RECURSIVE EnumTexts(_)
EnumTexts(n) == IF n = 0 THEN {<<>>}
                ELSE EnumTexts(n - 1)
                     \cup {Append(t, c) : t \in EnumTexts(n - 1), c \in EnumAlphabet}

Prefixes == {<<>>, <<"a", SP>>, <<"a", NL, FENCE, "json", NL>>, <<FENCE, NL>>,
             <<"see", SP, LK, "7", RK, NL, FENCE, "json", NL>>}

Suffixes == {<<>>, <<SP, "a">>, <<NL, FENCE>>, <<NL, FENCE, NL, "a">>}

Cores == {
    <<LB, QT, "a", QT, CO, "7", RB>>,
    <<LB, QT, "a", QT, CO, SP, QT, "x", SP, SP, "y", QT, RB>>,
    <<LB, QT, "a", QT, CO, QT, "x", BS, "n", "y", QT, RB>>,
    <<LB, QT, "a", QT, CO, QT, "x", BS, QT, "y", QT, RB>>,
    <<LB, NL, QT, "a", QT, CO, "7", CM, NL, RB>>,
    <<LB, QT, "a", QT, CO, LB, QT, "b", QT, CO, "true", RB, RB>>,
    <<LK, "7", CM, SP, "1", "0", RK>>,
    <<LK, LB, QT, "a", QT, CO, "null", RB, RK>>,
    <<LB, QT, "content", QT, CO, SP, QT, "x", NL, "y", QT, CM, SP, RB>>,
    <<LB, QT, "content", QT, CO, QT, "x", QT, CM, QT, "a", QT, CO, "7", RB>>,
    <<LB, QT, "content", QT, CO, SP, QT, "x", NL, "y", BS, QT, "z", QT, CM, SP, RB>>,
    <<LK, LB, QT, "content", QT, CO, QT, "x", NL, "y", QT, RB, RK>>,
    <<LB, QT, "a", QT, CO, "7">>,
    <<LB, QT, "a", QT, CO, "7", CM, RB>>,
    <<"a", SP, "b">>
}

ExInputs == {p \o c \o s : p \in Prefixes, c \in Cores, s \in Suffixes}
            \cup EnumTexts(MaxEnumLen)

ExAgents == {"curator", "writer", "critiquer", "editor", "publisher"}

\* a call of parseJSONSafely(jsonString)
ExCall(agent, raw) ==
    /\ exPc = "idle"
    /\ exAgent' = agent
    /\ exRaw' = raw
    /\ exPc' = "direct"
    /\ exTrace' = <<>>
    /\ UNCHANGED <<exResult, exErr, runVars, mdVars, rsVars>>

\* an attempt has given r: return its value, or go on to attempt number n
ExSettle(r, n) ==
    IF r.ok
    THEN exPc' = "returned" /\ exResult' = r.val /\ UNCHANGED exErr
    ELSE /\ exPc' = IF n = 0 THEN "thrown" ELSE Attempts(exAgent)[n]
         /\ exErr' = IF n = 0 THEN ParseErr(exAgent, exRaw) ELSE exErr
         /\ UNCHANGED exResult

AttemptIndex(agent, a) == CHOOSE k \in 1..Len(Attempts(agent)) : Attempts(agent)[k] = a

\* one attempt: return its value, or go on to the attempt the code makes next
ExAttempt(a) ==
    /\ exPc = a
    /\ exTrace' = Append(exTrace, a)
    /\ ExSettle(AttemptResult(exAgent, a, exRaw),
                AfterAttempt(exAgent, AttemptIndex(exAgent, a), exRaw))
    /\ UNCHANGED <<exAgent, exRaw, runVars, mdVars, rsVars>>

ExDirect == ExAttempt("direct")

ExFenced == ExAttempt("fenced")

ExFencedCleaned == ExAttempt("fencedCleaned")

ExBracket == ExAttempt("bracket")

ExBracketCleaned == ExAttempt("bracketCleaned")

ExInit == /\ exAgent = "none"
          /\ exRaw = <<>>
          /\ exPc = "idle"
          /\ exTrace = <<>>
          /\ exResult = JUndef
          /\ exErr = NoErr

ExNext == \/ \E agent \in ExAgents, raw \in ExInputs : ExCall(agent, raw)
          \/ ExDirect
          \/ ExFenced
          \/ ExFencedCleaned
          \/ ExBracket
          \/ ExBracketCleaned

(* ------------- the metadata of a draft and of a revision ------------- *)
\* Bound of the word counts taken one by one; the longer contents are those
\* around one and two minutes of reading.
MaxWords == 3

LongWordCounts == {199, 200, 201, 399, 400, 401}

\* n words with one space between them
Spaced(n) == [i \in 1..(2 * n - 1) |-> IF i % 2 = 1 THEN "w" ELSE SP]

\* n words with a space and a newline between them
WideSpaced(n) == [i \in 1..(3 * n - 2) |-> IF i % 3 = 1 THEN "w" ELSE IF i % 3 = 2 THEN SP ELSE NL]

MdContents ==
    {lead \o body \o trail :
        lead \in {<<>>, <<SP>>}, trail \in {<<>>, <<NL>>},
        body \in {Spaced(n) : n \in (0..MaxWords) \cup LongWordCounts}
                 \cup {WideSpaced(n) : n \in (0..MaxWords) \cup LongWordCounts}}

\* the value parseJSONSafely has returned for a writing or an editing response
\* whose content is the given text
MdParsed(v) == [ok |-> TRUE, val |-> v, trace |-> <<"direct">>]

MdPost(content) ==
    MakeObj(<<"content", "keyTakeaways">>, <<JStr(content), JArr(<<Word("k")>>)>>)

MdImprovements(content) ==
    MakeObj(<<"title", "content", "keyTakeaways", "changeLog">>,
            <<Word("T2"), JStr(content), JArr(<<>>), JArr(<<>>)>>)

MdDraftInput ==
    MakeObj(<<"topic", "selectedResults", "curatedSummary", "suggestedAngles">>,
            <<Word("ai"), JArr(<<>>), Word("cs"), JArr(<<>>)>>)

MdDraftLocals ==
    MakeObj(<<"structure">>,
            <<MakeObj(<<"title", "targetAudience", "outline">>,
                      <<Word("T"), Word("ta"), JArr(<<>>)>>)>>)

MdReviseInput ==
    MakeObj(<<"topic", "metadata">>,
            <<Word("ai"), MakeObj(<<"targetAudience", "sources">>, <<Word("ta"), JArr(<<>>)>>)>>)

MdReviseLocals ==
    MakeObj(<<"plan">>,
            <<Plan(MakeObj(<<"keywords", "metaDescription">>, <<JArr(<<>>), Word("md")>>))>>)

\* the stage ends with o: the record it returns, or a throw
MdSettle(o) ==
    /\ mdPc' = o.kind
    /\ mdRecord' = o.out

\* WriterAgent.execute after the writing response has been parsed
MdDraft(content) ==
    /\ mdPc = "idle"
    /\ mdAgent' = "writer"
    /\ mdContent' = content
    /\ MdSettle(WriterParsed("writing", MdParsed(MdPost(content)), <<>>, MdDraftInput,
                             MdDraftLocals))
    /\ UNCHANGED <<exVars, rsVars, runVars>>

\* EditorAgent.execute after the editing response has been parsed
MdRevise(content) ==
    /\ mdPc = "idle"
    /\ mdAgent' = "editor"
    /\ mdContent' = content
    /\ MdSettle(EditorParsed("editing", MdParsed(MdImprovements(content)), <<>>, MdReviseInput,
                             MdReviseLocals))
    /\ UNCHANGED <<exVars, rsVars, runVars>>

MdInit == /\ mdAgent = "none"
          /\ mdContent = <<>>
          /\ mdPc = "idle"
          /\ mdRecord = JUndef

MdNext == \/ \E content \in MdContents : MdDraft(content)
          \/ \E content \in MdContents : MdRevise(content)

(* ------------------- ResearcherAgent.execute by itself ------------------- *)
\* Bounds: the value of numResults and the number of results the search returns.
MaxNumResults == 6

MaxHits == 7

\* the i-th result of a search
RsHit(i) == MakeObj(<<"title", "content", "url">>, <<JStr(NumberTokens(i)), Word("c"), Word("u")>>)

\* what the search collaborator resolves with: an object with n results, an
\* object without a results array, or null
RsResponses ==
    {MakeObj(<<"results">>, <<JArr([i \in 1..n |-> RsHit(i)])>>) : n \in 0..MaxHits}
    \cup {JObj(<<>>, <<>>), MakeObj(<<"results">>, <<Word("none")>>), JNull}

\* the inputs of execute: a topic, with or without numResults
RsInputs ==
    {MakeObj(<<"topic">>, <<Word("ai")>>)}
    \cup {MakeObj(<<"topic", "numResults">>, <<Word("ai"), JNum(n)>>) : n \in 0..MaxNumResults}

\* execute has run up to an await, a return or a throw
RsSettle(o) ==
    /\ rsPc' = IF o.kind = "call" THEN o.step ELSE o.kind
    /\ rsLocals' = IF o.kind = "call" THEN o.loc ELSE rsLocals
    /\ rsRecord' = o.out

\* execute(input) is called and its search resolves with resp
RsSearchReturns(input, resp) ==
    /\ rsPc = "idle"
    /\ rsInput' = input
    /\ rsResp' = resp
    /\ RsSettle(ResearcherStep("search", resp, input, JUndef))
    /\ UNCHANGED <<exVars, mdVars, runVars>>

\* the summary call resolves
RsSummaryReturns ==
    /\ rsPc = "summary"
    /\ RsSettle(ResearcherStep("summary", <<"sum">>, rsInput, rsLocals))
    /\ UNCHANGED <<exVars, mdVars, runVars, rsInput, rsResp>>

RsInit == /\ rsInput = JUndef
          /\ rsResp = JUndef
          /\ rsPc = "idle"
          /\ rsLocals = JUndef
          /\ rsRecord = JUndef

RsNext == \/ \E input \in RsInputs, resp \in RsResponses : RsSearchReturns(input, resp)
          \/ RsSummaryReturns

Init == ExInit /\ MdInit /\ RsInit /\ RunInit

\* ResearcherAgent.execute alone, on every input of RsInputs
ResearchSpec == Init /\ [][RsNext]_vars

MetadataSpec == Init /\ [][MdNext]_vars

\* parseJSONSafely alone, on every text of ExInputs
ExtractSpec == Init /\ [][ExNext]_vars


Next == \/ \E k \in Keys : UnsetKey(k)
        \/ CreateBlogChain
        \/ \E t \in Topics, gh \in BOOLEAN : Invoke(t, gh)
        \/ \E resp \in Responses(StageOrder[stage], call) : CallReturns(resp)
        \/ CallFails
        \/ PostOkReturns
        \/ PostOkFails
        \/ PostErrReturns
        \/ PostErrFails

\* runs of the chain
Spec == Init /\ [][Next]_vars

(* ============================== properties ============================ *)
\* the order of the stages as the specification names it
DeclaredOrder == <<"researcher", "curator", "writer", "critiquer", "editor", "publisher">>

\* the agent whose execute was invoked last
Current == started[Len(started)]

\* the values an object holds
Fields(r) == IF r.t = "obj" THEN {r.kids[i] : i \in 1..Len(r.kids)} ELSE {}

\* what stage k may be given: the topic, and the records of the stages before it
\* or fields of them (undefined where a record lacks the field)
FromEarlier(k) ==
    {JUndef, JStr(<<topic>>)}
    \cup UNION {Fields(recs[DeclaredOrder[j]]) \cup {recs[DeclaredOrder[j]]} : j \in 1..(k - 1)}

\* C1: in a run the stages are invoked in the declared order, each only after the
\* one before it has returned; at most one execute is running and at most one
\* collaborator call, a call of the running stage, is in flight; and the input of
\* a stage holds only the topic and records, or fields of records, that earlier
\* stages of the run returned.
C1_SequentialOrder ==
    /\ Len(started) <= Len(DeclaredOrder)
    /\ \A i \in 1..Len(started) : started[i] = DeclaredOrder[i]
    /\ \A i \in 2..Len(started) : status[started[i - 1]] = "returned"
    /\ Cardinality({a \in Agents : status[a] = "running"}) <= 1
    /\ Cardinality(inflight) <= 1
    /\ \A c \in inflight : c[1] = Current /\ status[Current] = "running"
    /\ started # <<>> => Fields(stageInput) \subseteq FromEarlier(Len(started))

\* C1: a run in which all six stages ran to the end, the editor on the critique
\* the critiquer returned
C1_Witness ==
    /\ pc = "done"
    /\ started = DeclaredOrder
    /\ GetProp(stageInput, "changeLog") = GetProp(recs["editor"], "changeLog")
    /\ GetProp(recs["editor"], "changeLog") # JUndef

\* C2: once the execute of a stage has thrown, the run has failed with the error
\* that execute threw, no later stage was or is invoked, and the run has no result.
C2_FailFast ==
    \A k \in 1..Len(DeclaredOrder) :
        status[DeclaredOrder[k]] = "threw" =>
            /\ pc = "failed"
            /\ thrown # NoErr
            /\ runError = thrown
            /\ result = JUndef
            /\ Len(started) = k
            /\ \A j \in (k + 1)..Len(DeclaredOrder) : status[DeclaredOrder[j]] = "pending"

\* C2: the critiquer has rejected a critique without a score; the editor and the
\* publisher were never invoked
C2_Witness ==
    /\ pc = "failed"
    /\ status["critiquer"] = "threw"
    /\ thrown.msg = "Invalid critique format"
    /\ status["editor"] = "pending"
    /\ status["publisher"] = "pending"

\* C3: when the execute of a stage has thrown, the last run posted to the telemetry
\* collaborator is the span of that stage, ended with an error; the stage issued
\* that post, and awaited it, before it threw (whether the collaborator took the
\* post is not the stage's doing).
C3_ErrorSpanPosted ==
    \A a \in Agents :
        status[a] = "threw" =>
            /\ tele # <<>>
            /\ tele[Len(tele)].agent = a
            /\ tele[Len(tele)].error # NoErr
            /\ tele[Len(tele)].error = runTree.error
            /\ runTree.ends >= 1

\* C3: the editor has thrown on a response that holds no JSON, and its span was
\* posted with that error
C3_Witness ==
    /\ status["editor"] = "threw"
    /\ thrown = ParseErr("editor", <<"sorry">>)
    /\ tele[Len(tele)] = [agent |-> "editor", topic |-> topic, outputs |-> FALSE,
                          error |-> thrown, ok |-> TRUE]

\* C4: a stage that has assembled its output (its calls, the extraction and the
\* validation have all succeeded) does not throw, whatever postRun does.
C4_TelemetryNeverAborts ==
    \A a \in Agents : status[a] = "threw" => ~(runTree.agent = a /\ runTree.outputs)

\* C5: when a generator or search call has failed in a stage, the error the run
\* fails with is the error of that call.
C5_CollaboratorErrorUnmodified ==
    (pc = "failed" /\ collabErr # NoErr) => (thrown = collabErr /\ runError = collabErr)

C7_TopicPropagation ==
    /\ \A a \in Agents : recs[a] # JUndef => GetProp(recs[a], "topic") = JStr(<<topic>>)
    /\ result # JUndef => GetProp(result, "topic") = JStr(<<topic>>)

\* C7: a finished run on the topic "tla" whose critique came from a response that
\* names the topic "other"
C7_Witness ==
    /\ pc = "done"
    /\ topic = "tla"
    /\ GetProp(recs["critiquer"], "overallScore") = JNum(8)
    /\ GetProp(recs["critiquer"], "topic") = Word("tla")
    /\ GetProp(result, "topic") = Word("tla")

\* C8: a draft handed on to the critiquer has a string title and a string content,
\* and a revision handed on to the publisher has a string metaDescription.
C8_OnlyValidRecordsForwarded ==
    /\ status["critiquer"] # "pending" =>
           /\ IsString(GetProp(recs["writer"], "title"))
           /\ IsString(GetProp(recs["writer"], "content"))
    /\ status["publisher"] # "pending" =>
           IsString(GetProp(GetProp(recs["editor"], "metadata"), "metaDescription"))

\* the strategy of the specification an attempt of the code belongs to: 1 direct,
\* 2 fenced block, 3 bracket scan, 4 normalization
StrategyOf(a) == IF a = "direct" THEN 1
                 ELSE IF a = "fenced" THEN 2
                 ELSE IF a = "bracket" THEN 3
                 ELSE 4

Terminal == exPc \in {"returned", "thrown"}

TriedUpTo(n) ==
    /\ \A i \in 1..Len(exTrace) : AttemptIndex(exAgent, exTrace[i]) <= n
    /\ \A i \in 1..(Len(exTrace) - 1) :
           AttemptIndex(exAgent, exTrace[i]) < AttemptIndex(exAgent, exTrace[i + 1])
    /\ \A j \in 1..n :
           AttemptSpan(exAgent, Attempts(exAgent)[j], exRaw)
               => \E i \in 1..Len(exTrace) : exTrace[i] = Attempts(exAgent)[j]

C10_ValidJsonDirect ==
    (Terminal /\ JSONParse(exRaw).ok) =>
        /\ exPc = "returned"
        /\ exTrace = <<"direct">>
        /\ exResult = JSONParse(exRaw).val

\* C10: the writer was given {"a":"x\ny"} and returned the string with its newline
C10_Witness ==
    /\ exPc = "returned"
    /\ exAgent = "writer"
    /\ exRaw = <<LB, QT, "a", QT, CO, QT, "x", BS, "n", "y", QT, RB>>
    /\ exTrace = <<"direct">>
    /\ exResult = JObj(<<<<"a">>>>, <<JStr(<<"x", NL, "y">>)>>)

\* the texts inside a code fence of raw (the fence alone or tagged json, a newline
\* after it, a newline before the closing fence) that JSON.parse accepts
FencedJson(raw) ==
    {SubSeq(raw, b, j - 1) :
        b \in {k \in 2..Len(raw) : \/ raw[k - 1] = NL /\ k > 2 /\ raw[k - 2] = FENCE
                                   \/ raw[k - 1] = NL /\ k > 3 /\ raw[k - 2] = "json"
                                      /\ raw[k - 3] = FENCE},
        j \in {k \in 1..(Len(raw) - 1) : raw[k] = NL /\ raw[k + 1] = FENCE}}
    \cap {t \in {SubSeq(raw, b, j) : b \in 1..Len(raw), j \in 1..Len(raw)} : JSONParse(t).ok}

\* C11: a text that holds valid JSON in a code fence, with prose around it, is
\* returned as the value of the fenced JSON.
C11_FencedJsonReturned ==
    (Terminal /\ FencedJson(exRaw) # {}) =>
        /\ exPc = "returned"
        /\ exResult \in {JSONParse(t).val : t \in FencedJson(exRaw)}

\* an object with a trailing comma whose content value holds a literal newline
\* and an (escaped) double quote, and the content string it was written from
QuotedContentText ==
    <<LB, QT, "content", QT, CO, SP, QT, "x", NL, "y", BS, QT, "z", QT, CM, SP, RB>>

QuotedContent == <<"x", NL, "y", QT, "z">>

\* C12: in the drafting stage, an object with malformed punctuation whose content
\* holds literal newlines and an internal double quote is returned with exactly
\* that content.
C12_ContentPreserved ==
    (exAgent = "writer" /\ Terminal /\ exRaw = QuotedContentText) =>
        /\ exPc = "returned"
        /\ GetProp(exResult, "content") = JStr(QuotedContent)

\* a text with nothing to extract: JSON.parse rejects it, and it holds neither a
\* code block nor a brace or bracket pair
Unrecoverable(raw) ==
    /\ ~JSONParse(raw).ok
    /\ ~CodeBlockMatch(raw).found
    /\ ~GreedyPatternMatch(raw).found

FourStrategies == <<"direct", "fenced", "bracket", "normalized">>

SameByDirectParse(v, r) ==
    /\ r.ok
    /\ r.val = v
    /\ r.trace = <<"direct">>

\* C14: when parseJSONSafely returns v, parseJSONSafely of JSON.stringify(v) returns
\* a value equal to v by its direct parse.
C14_Idempotent ==
    exPc = "returned" =>
        SameByDirectParse(exResult, ParseJSONSafely(exAgent, Stringify(exResult)))

\* the score the scoring response gives to the i-th search result, -1 when it
\* gives none
AssignedScore(scored, i) ==
    IF scored.t = "arr" /\ i <= Len(scored.kids)
       /\ GetProp(scored.kids[i], "relevanceScore").t = "num"
    THEN GetProp(scored.kids[i], "relevanceScore").n
    ELSE -1

\* sel is the selection of the search results inp under the scores of scored:
\* the results scored 7 or more, each once, by descending score, results of
\* equal score in their order in inp
IsSelection(sel, inp, scored) ==
    \E f \in [1..Len(sel) -> 1..Len(inp)] :
        /\ {f[k] : k \in 1..Len(sel)} = {i \in 1..Len(inp) : AssignedScore(scored, i) >= 7}
        /\ \A k, l \in 1..Len(sel) :
               k < l => \/ AssignedScore(scored, f[k]) > AssignedScore(scored, f[l])
                        \/ /\ AssignedScore(scored, f[k]) = AssignedScore(scored, f[l])
                           /\ f[k] < f[l]
        /\ \A k \in 1..Len(sel) :
               /\ GetProp(sel[k], "title") = GetProp(inp[f[k]], "title")
               /\ GetProp(sel[k], "snippet") = GetProp(inp[f[k]], "snippet")
               /\ GetProp(sel[k], "link") = GetProp(inp[f[k]], "link")
               /\ GetProp(sel[k], "relevanceScore") = JNum(AssignedScore(scored, f[k]))

\* C15: the selectedResults of the curator, as computed from the scoring response
\* and as returned in the curated record, are the search results scored 7 or
\* more, by descending score, ties in retrieval order.
C15_SelectionByScore ==
    /\ (pc = "running" /\ StageOrder[stage] = "curator" /\ call = "curation") =>
           IsSelection(GetProp(locals, "selectedResults").kids,
                       GetProp(stageInput, "searchResults").kids,
                       GetProp(locals, "scoredResults"))
    /\ (pc = "running" /\ StageOrder[stage] = "curator" /\ call = "postOk") =>
           GetProp(output, "selectedResults") = GetProp(locals, "selectedResults")

C15_Witness ==
    /\ pc = "running" /\ StageOrder[stage] = "curator" /\ call = "postOk"
    /\ GetProp(locals, "scoredResults") = JArr(<<Bare(9), Bare(6), Bare(8), Bare(7)>>)
    /\ Len(GetProp(stageInput, "searchResults").kids) = 4
    /\ Len(GetProp(output, "selectedResults").kids) = 3
    /\ GetProp(GetProp(output, "selectedResults").kids[1], "title") = Word("A")
    /\ GetProp(GetProp(output, "selectedResults").kids[2], "title") = Word("C")
    /\ GetProp(GetProp(output, "selectedResults").kids[3], "title") = Word("D")

\* the metadata of the record the drafting or the revision stage has returned
MdMeta(k) == GetProp(GetProp(mdRecord, "metadata"), k).n

\* the least k with k * d >= n
Ceiling(n, d) == CHOOSE k \in 0..n : k * d >= n /\ (k = 0 \/ (k - 1) * d < n)

\* the number of maximal runs of non-whitespace tokens of a text
Runs(s) == Cardinality({i \in 1..Len(s) : ~IsWs(s[i]) /\ (i = 1 \/ IsWs(s[i - 1]))})

\* C16: in every draft and revised record readingTime is the ceiling of
\* wordCount / 200, so that contents of 200, 201 and 400 words give 1, 2 and 2.
C16_ReadingTimeIsCeiling ==
    mdPc = "done" =>
        /\ MdMeta("readingTime") = Ceiling(MdMeta("wordCount"), 200)
        /\ Runs(mdContent) = 200 => MdMeta("readingTime") = 1
        /\ Runs(mdContent) = 201 => MdMeta("readingTime") = 2
        /\ Runs(mdContent) = 400 => MdMeta("readingTime") = 2

\* C17: the wordCount of a draft or revised record is the number of
\* whitespace-delimited tokens of its content, whatever the content.
C17_WordCountIsTokenCount ==
    mdPc = "done" => MdMeta("wordCount") = Runs(mdContent)

\* the scoring response gives the i-th search result both a score and a reason
ScoredInFull(scored, i) ==
    /\ scored.t = "arr"
    /\ i <= Len(scored.kids)
    /\ ~IsNullish(GetProp(scored.kids[i], "relevanceScore"))
    /\ ~IsNullish(GetProp(scored.kids[i], "reason"))

\* C18: a stage goes on past a response only if the response holds the required
\* fields: the curator a score and a reason for every search result, the writer
\* a targetAudience.
C18_NoFabricatedDefaults ==
    /\ (pc = "running" /\ StageOrder[stage] = "curator" /\ call \in {"curation", "postOk"}) =>
           \A i \in 1..Len(GetProp(stageInput, "searchResults").kids) :
               ScoredInFull(GetProp(locals, "scoredResults"), i)
    /\ (pc = "running" /\ StageOrder[stage] = "writer" /\ call = "postOk") =>
           ~IsNullish(GetProp(GetProp(locals, "structure"), "targetAudience"))

Severities == {"low", "medium", "high"}

\* every content issue of the critique has a severity of the declared set
SeveritiesDeclared(critique) ==
    /\ IsArray(GetProp(critique, "contentIssues"))
    /\ \A i \in 1..Len(GetProp(critique, "contentIssues").kids) :
           GetProp(GetProp(critique, "contentIssues").kids[i], "severity")
               \in {Word(x) : x \in Severities}

\* C19: the critiquer returns no critique with a content issue whose severity is
\* not low, medium or high, and the editor is never called with one.
C19_SeverityValidated ==
    /\ recs["critiquer"] # JUndef => SeveritiesDeclared(recs["critiquer"])
    /\ (pc # "idle" /\ stage > 0 /\ StageOrder[stage] = "editor") =>
           SeveritiesDeclared(GetProp(stageInput, "critique"))

\* how many times x occurs in the sequence q
Occurrences(q, x) == Cardinality({i \in 1..Len(q) : q[i] = x})

\* the calls of q that go to the given collaborator, from the given agents
CallsTo(q, collaborator, agents) ==
    Cardinality({i \in 1..Len(q) : CollaboratorOf(q[i][2]) = collaborator /\ q[i][1] \in agents})

\* the generation calls a stage may make in one run
GenerationCalls ==
    [a \in Agents |-> IF a \in {"curator", "writer", "editor"} THEN 2 ELSE 1]

\* C20: in one run each execute is invoked at most once and each call is sent at
\* most once: at most one search call and nine generation calls, at most 1, 2, 2,
\* 1, 2 and 1 of them from the six stages in order.
C20_NoRetry ==
    /\ \A a \in Agents : Occurrences(started, a) <= 1
    /\ \A i \in 1..Len(issued) : Occurrences(issued, issued[i]) = 1
    /\ CallsTo(issued, "search", Agents) <= 1
    /\ CallsTo(issued, "generator", Agents) <= 9
    /\ \A a \in Agents : CallsTo(issued, "generator", {a}) <= GenerationCalls[a]

C20_Witness ==
    /\ pc = "done"
    /\ CallsTo(issued, "search", Agents) = 1
    /\ CallsTo(issued, "generator", Agents) = 9
    /\ Len(started) = 6

\* the stage now executing is agent and has issued the call st
HasIssued(agent, st) ==
    /\ pc # "idle" /\ stage > 0
    /\ StageOrder[stage] = agent
    /\ \E i \in 1..Len(issued) : issued[i] = <<agent, st>>

\* the structure the drafting stage asks for: a title, an audience, an outline
StructureValid(v) ==
    /\ IsString(GetProp(v, "title"))
    /\ IsString(GetProp(v, "targetAudience"))
    /\ IsArray(GetProp(v, "outline"))

\* the plan the revision stage asks for
PlanValid(v) ==
    /\ GetProp(GetProp(GetProp(v, "improvementPlan"), "titleChanges"), "shouldChange").t
           \in {"true", "false"}
    /\ IsArray(GetProp(GetProp(v, "improvementPlan"), "structuralChanges"))
    /\ IsArray(GetProp(GetProp(v, "improvementPlan"), "styleImprovements"))
    /\ IsArray(GetProp(GetProp(GetProp(v, "improvementPlan"), "seoOptimizations"), "keywords"))

\* C21: a stage with two generation calls issues the second only after the result
\* of the first has been extracted and found valid, and a stage that fails
\* returns no record.
C21_SecondCallAfterValidFirst ==
    /\ HasIssued("curator", "curation") => IsArray(GetProp(locals, "scoredResults"))
    /\ HasIssued("writer", "writing") => StructureValid(GetProp(locals, "structure"))
    /\ HasIssued("editor", "editing") => PlanValid(GetProp(locals, "plan"))
    /\ \A a \in Agents : status[a] = "threw" => recs[a] = JUndef

\* no search, generator, sink or telemetry call of a run has been issued, and no
\* execute invoked
NothingIssued ==
    /\ issued = <<>>
    /\ inflight = {}
    /\ tele = <<>>
    /\ runTree = NoSpan
    /\ started = <<>>

\* C22: a missing credential is reported by a constructor, in createBlogChain or,
\* for the publisher, in the first step of the chain, before any call or span of
\* the run; an agent's execute never runs without its credentials having been
\* there when it was constructed.
C22_CredentialsAtConstruction ==
    /\ chain = "created" <=> (createdWith = Keys /\ chain # "none")
    /\ chain = "failed" => (configErr # NoErr /\ configErr.msg \notin createdWith /\ pc = "idle")
    /\ pc = "rejected" => (configErr = ConfigErr("OPENAI_API_KEY") /\ "OPENAI_API_KEY" \notin env)
    /\ configErr # NoErr => NothingIssued
    /\ ~NothingIssued => (chain = "created" /\ "OPENAI_API_KEY" \in env)
    /\ thrown.src # "config" /\ runError.src # "config"

C22_Witness ==
    /\ pc = "rejected"
    /\ chain = "created"
    /\ configErr = ConfigErr("OPENAI_API_KEY")
    /\ NothingIssued

\* the results the search has returned, none when it returned no array
RsHits == IF IsArray(GetProp(rsResp, "results")) THEN GetProp(rsResp, "results").kids ELSE <<>>

\* the count asked for: numResults, 5 when it is absent or zero
RsLimit == IF GetProp(rsInput, "numResults").t = "num" /\ GetProp(rsInput, "numResults").n # 0
           THEN GetProp(rsInput, "numResults").n
           ELSE 5

\* C23: the research record holds the first numResults results of the search (5
\* when numResults is absent or zero), in the order of the search, fewer when
\* the search returned fewer or no array; the stage succeeds in all these cases.
C23_FirstResultsKept ==
    /\ (rsPc # "idle" /\ rsResp # JNull) => rsPc \in {"summary", "done"}
    /\ rsPc = "done" =>
        /\ Len(GetProp(rsRecord, "searchResults").kids)
               = (IF Len(RsHits) < RsLimit THEN Len(RsHits) ELSE RsLimit)
        /\ \A i \in 1..Len(GetProp(rsRecord, "searchResults").kids) :
               /\ GetProp(GetProp(rsRecord, "searchResults").kids[i], "title")
                      = GetProp(RsHits[i], "title")
               /\ GetProp(GetProp(rsRecord, "searchResults").kids[i], "snippet")
                      = GetProp(RsHits[i], "content")
               /\ GetProp(GetProp(rsRecord, "searchResults").kids[i], "link")
                      = GetProp(RsHits[i], "url")

C23_Witness ==
    /\ rsPc = "done"
    /\ GetProp(rsInput, "numResults") = JUndef
    /\ Len(RsHits) = 7
    /\ Len(GetProp(rsRecord, "searchResults").kids) = 5
    /\ GetProp(GetProp(rsRecord, "searchResults").kids[5], "title") = JStr(<<"5">>)

\* C24: the changeLog of the final output is the changeLog of the revised record,
\* entry for entry, and the publisher is handed that same list.
C24_ChangeLogKept ==
    /\ pc = "done" =>
        /\ IsArray(GetProp(recs["editor"], "changeLog"))
        /\ GetProp(result, "changeLog") = GetProp(recs["editor"], "changeLog")
    /\ (pc # "idle" /\ stage > 0 /\ StageOrder[stage] = "publisher") =>
           GetProp(stageInput, "changeLog") = GetProp(recs["editor"], "changeLog")

C24_Witness ==
    /\ pc = "done"
    /\ Len(GetProp(result, "changeLog").kids) = 2
    /\ GetProp(GetProp(result, "changeLog").kids[1], "type") = Word("title")
    /\ GetProp(GetProp(result, "changeLog").kids[2], "type") = Word("style")

CritiqueComplete(v) ==
    /\ \A k \in {"overallScore", "feedback", "contentIssues", "seoAnalysis"} :
           GetProp(v, k) # JUndef
    /\ GetProp(v, "overallScore").t = "num"
    /\ GetProp(v, "overallScore").n \in 0..10

\* C26: a critique response that holds overallScore, feedback, contentIssues and
\* seoAnalysis is accepted whatever its overallScore in 0..10, 0 included: the
\* critiquer goes on to return its record.
C26_EveryScoreAccepted ==
    [][\A resp \in Texts(CritiqueValues) :
           (/\ pc = "running"
            /\ StageOrder[stage] = "critiquer"
            /\ call = "analysis"
            /\ CritiqueComplete(ParseJSONSafely("critiquer", resp).val)
            /\ CallReturns(resp))
           => call' = "postOk" /\ GetProp(output', "overallScore") # JUndef]_vars

\* C27: the runTree of a stage is ended once: never twice, never with both the
\* output and an error, and a stage that has returned or thrown has ended it,
\* whatever postRun did.
C27_SpanEndedOnce ==
    /\ runTree.ends <= 1
    /\ ~(runTree.outputs /\ runTree.error # NoErr)
    /\ \A a \in Agents :
           (status[a] \in {"returned", "threw"} /\ runTree.agent = a) => runTree.ends = 1

\* prose: a text with no brace, bracket or code fence
IsProse(t) == \A i \in 1..Len(t) : t[i] \notin {LB, RB, LK, RK, FENCE}

\* the objects and arrays that raw holds between prose and that JSON.parse accepts
EmbeddedJson(raw) ==
    {t \in {SubSeq(raw, b, j) :
                b \in {k \in 1..Len(raw) : raw[k] \in {LB, LK} /\ IsProse(SubSeq(raw, 1, k - 1))},
                j \in {k \in 1..Len(raw) : raw[k] \in {RB, RK}
                                           /\ IsProse(SubSeq(raw, k + 1, Len(raw)))}} :
        JSONParse(t).ok}

\* C28: a text made of prose around one valid JSON object or array, with no code
\* fence, is returned as the value JSON.parse gives for that object or array.
C28_EmbeddedJsonReturned ==
    (Terminal /\ EmbeddedJson(exRaw) # {}) =>
        /\ exPc = "returned"
        /\ exResult \in {JSONParse(t).val : t \in EmbeddedJson(exRaw)}

\* the search result r with the score and reason of the scoring element sc
\* (undefined when the response has no element at the position of r)
ScoredAs(r, sc) ==
    SetProp(SetProp(r, <<"relevanceScore">>, GetProp(sc, "relevanceScore")),
            <<"reason">>,
            IF IsNullish(GetProp(sc, "reason")) THEN JStr(<<"No", SP, "reason", SP, "provided">>)
            ELSE GetProp(sc, "reason"))

ElementAt(q, i) == IF i <= Len(q) THEN q[i] ELSE JUndef

\* sel holds the results of res with the scores and reasons that scored gives at
\* their positions, and none of the results that scored gives no score
AttachedByPosition(sel, res, scored) ==
    /\ \A k \in 1..Len(sel) :
           \E i \in 1..Len(res) :
               /\ ~IsNullish(GetProp(ElementAt(scored, i), "relevanceScore"))
               /\ sel[k] = ScoredAs(res[i], scored[i])
    /\ \A i \in 1..Len(res) :
           IsNullish(GetProp(ElementAt(scored, i), "relevanceScore")) =>
               \A k \in 1..Len(sel) : GetProp(sel[k], "title") # GetProp(res[i], "title")

\* C29: when the scoring response has been extracted as an array, the curator goes
\* on to the curation call (it does not fail), every result it has selected
\* carries the score and the reason of the scoring element at the result's own
\* position, whatever title that element names, and no result is selected whose
\* position has no element or an element with a null or absent relevanceScore.
C29_ScoresByPosition ==
    [][\A resp \in Texts(ScoringValues) :
           (/\ pc = "running"
            /\ StageOrder[stage] = "curator"
            /\ call = "scoring"
            /\ IsArray(ParseJSONSafely("curator", resp).val)
            /\ CallReturns(resp))
           => /\ call' = "curation"
              /\ AttachedByPosition(GetProp(locals', "selectedResults").kids,
                                    GetProp(stageInput, "searchResults").kids,
                                    ParseJSONSafely("curator", resp).val.kids)]_vars

\* the curator has selected the first and the fourth of four results: the second
\* has a null score, the third none, and the fourth takes the score of an element
\* that names the title of the first
C29_Witness ==
    /\ pc = "running" /\ StageOrder[stage] = "curator" /\ call = "curation"
    /\ Len(GetProp(stageInput, "searchResults").kids) = 4
    /\ GetProp(locals, "scoredResults")
           = JArr(<<Score(9), Unscored, MakeObj(<<"reason">>, <<Word("r")>>), Score(8)>>)
    /\ Len(GetProp(locals, "selectedResults").kids) = 2
    /\ GetProp(GetProp(locals, "selectedResults").kids[2], "title") = Word("D")
    /\ GetProp(GetProp(locals, "selectedResults").kids[2], "relevanceScore") = JNum(8)

\* the publisher has issued a call that writes to the disk or runs git
TouchedDisk ==
    \E i \in 1..Len(issued) :
        issued[i][1] = "publisher" /\ issued[i][2] \in {"init", "mkdir", "write", "push"}

\* C30: the publisher writes no file and runs no git command before the
\* formatting response was generated and extracted, and when its execute has
\* thrown no post file is left in the output directory.
C30_NoPartialArtifact ==
    /\ TouchedDisk => /\ HasIssued("publisher", "formatting")
                      /\ GetProp(locals, "formatted") # JUndef
    /\ (pc # "idle" /\ stage > 0 /\ StageOrder[stage] = "publisher" /\ call = "formatting") =>
           files = {}
    /\ status["publisher"] = "threw" => files = {}

====
